---------------------------- MODULE Spec2Model ----------------------------
(***************************************************************************)
(* A model of the simulation core of Rocket Blaster                        *)
(* (src/src/components/RocketBlaster.tsx): the React component's state     *)
(* (mode, score), its useRef cells, the event handlers, the                *)
(* requestAnimationFrame loop and the per-frame update().                  *)
(*                                                                         *)
(* Units.  The program computes with floating point numbers; the model     *)
(* uses fixed point integers:                                              *)
(*   lengths and positions   tenths of a pixel        (48 px = 480)        *)
(*   velocities              tenths of a pixel / s    (460 px/s = 4600)    *)
(*   times and durations     milliseconds             (0.033 s = 33)       *)
(*   unit vectors            thousandths              (1.0 = 1000)         *)
(*   hit points              tenths                   (hp 2 = 20)          *)
(*   combo multiplier        ten-thousandths          (x1.0 = 10000)       *)
(*   theme blend             1/4000                   (1.0 = 4000)         *)
(*   screen shake            tenths                   (6 = 60)             *)
(* Products are divided back with Quot, which rounds toward zero.          *)
(*                                                                         *)
(* Math.random() is a nondeterministic draw from a small set of            *)
(* representative values (the record rnd of a frame).                      *)
(***************************************************************************)
EXTENDS Integers, Sequences, FiniteSets, TLC

\* ------------------------------------------------------------------------
\* Bounds of the exploration (not program constants)
\* ------------------------------------------------------------------------
\* Frames (loop callbacks) explored after the initial state.
MaxTicks == 2
\* Input events (key, mouse) explored after the initial state.
MaxInputs == 3

\* ------------------------------------------------------------------------
\* Program constants
\* ------------------------------------------------------------------------
NumThemes == 5
RocketWidth == 480
RocketHeight == 280
RocketSpeed == 4600
MaxDt == 33
ThemeDuration == 35000
BlendFull == 4000
ComboIdle == 2500
ComboStep == 2000
ComboCap == 50000
ComboFloor == 10000
DifficultyPeriod == 5000
SpawnIntervalStart == 900
SpawnIntervalMin == 220
SpawnIntervalStep == 40
BossPeriod == 45000
EventIdle == 25000
EventLength == 8000
MeteorInterval == 180
BulletRadius == 32
BulletSpeed == 10000
BeamWidth == 60
BeamTtl == 120
BeamDamage == 8
BulletDamage == 10
OrbPickup == 260
EnemyMargin == 800
ShakeKick == 60
MinCanvas == 3600

\* enemySpeedMultiplier of THEMES[i], in hundredths.
ThemeSpeed == <<100, 110, 95, 100, 90>>
\* ufoChance of THEMES[i], in hundredths.
ThemeUfoChance == <<45, 30, 50, 55, 40>>

\* ------------------------------------------------------------------------
\* Helpers
\* ------------------------------------------------------------------------
Min(a, b) == IF a <= b THEN a ELSE b
Max(a, b) == IF a >= b THEN a ELSE b
Abs(a) == IF a >= 0 THEN a ELSE -a

\* Fixed point division, rounding toward zero.
Quot(a, b) == IF a >= 0 THEN a \div b ELSE -((-a) \div b)

\* const clamp = (v, min, max) => Math.max(min, Math.min(max, v))
clamp(v, lo, hi) == Max(lo, Min(hi, v))

\* Integer square root (floor), by bisection on [lo, hi].
RECURSIVE SqrtIn(_, _, _)
SqrtIn(n, lo, hi) ==
    IF lo >= hi THEN lo
    ELSE LET mid == (lo + hi + 1) \div 2
         IN  IF mid * mid <= n THEN SqrtIn(n, mid, hi) ELSE SqrtIn(n, lo, mid - 1)

\* const length = (v) => Math.hypot(v.x, v.y), on tenths of a pixel.
length(vx, vy) == SqrtIn(vx * vx + vy * vy, 0, 46000)

\* normalize: len = length(v) || 1; {x: v.x/len, y: v.y/len}, in thousandths.
\* A zero vector has length 0, is divided by 1 and stays the zero vector.
normalize(vx, vy) ==
    LET len == length(vx, vy)
    IN  IF len = 0 THEN [x |-> 0, y |-> 0]
        ELSE [x |-> Quot(vx * 1000, len), y |-> Quot(vy * 1000, len)]

\* const lerp = (a, b, t) => a + (b - a) * t, with t in hundredths.
lerp(a, b, t) == a + Quot((b - a) * t, 100)

\* Displacement (tenths of a pixel) of velocity v (tenths of a pixel / s)
\* over dt milliseconds.
Travel(v, dt) == Quot(v * dt, 1000)

\* A unit-vector component (thousandths) times a magnitude.
Scale(n, mag) == Quot(n * mag, 1000)

RECURSIVE Repeat(_, _)
Repeat(x, n) == IF n <= 0 THEN <<>> ELSE <<x>> \o Repeat(x, n - 1)


\* ------------------------------------------------------------------------
\* State
\* ------------------------------------------------------------------------
VARIABLES
    mode,       \* React state `mode`, queued setMode calls applied
    score,      \* React state `score`, queued setScore calls applied
    rendered,   \* [mode, score] of the committed render: what the identifier
                \* `mode` evaluates to inside the handlers and the loop that
                \* are currently registered
    refs,       \* the useRef cells, one field per ref
    container,  \* bounding rectangle of the container <div> (the window)
    last,       \* history: the operation that produced this state
    destroyed,  \* history: ids of the enemies given to onEnemyDestroyed
    nextId,     \* history: the id the next spawned enemy gets
    nTicks,     \* frames run so far (exploration bound)
    nInputs     \* input events so far (exploration bound)

vars == <<mode, score, rendered, refs, container, last, destroyed, nextId, nTicks, nInputs>>

Modes == {"menu", "playing", "gameover"}
PowerUpTypes == {"spread", "laser", "homing", "shield", "slowmo", "magnet"}
BossKinds == {"bossUfo", "bossGolem"}
\* aimPositionRef.current = null
NoAim == [known |-> FALSE, x |-> 0, y |-> 0]

\* Keys the model presses.  The toggles h, m and c only change what draw()
\* paints and are left out; the arrow keys are aliases of a, d, w, s.
MoveKeys == {"a", "d", "w", "s"}
Keys == {"enter", " ", "p", "r", "k", "q", "e"} \cup {"d"}

\* Sizes of the container the window can be resized to (tenths of a pixel):
\* smaller than the rocket, the smallest canvas, and a wide one.
Containers == {[w |-> 400, h |-> 200], [w |-> 3600, h |-> 3600], [w |-> 8000, h |-> 3600]}
\* Lines 279-280, 284-285: the canvas is sized to the container, at least
\* 360 x 360; the loop hands its bounding rectangle to update (1765-1767).
canvasOf(c) == [w |-> Max(MinCanvas, c.w), h |-> Max(MinCanvas, c.h)]
\* Viewport arguments for update() called on its own, outside the loop.
Viewports == Containers
\* Milliseconds between two loop callbacks.
Elapsed == {40}
\* Pointer positions of mousemove events.
AimPoints == {[known |-> TRUE, x |-> 0, y |-> 140]}

\* The useRef initial values (lines 183-248) with the rocket placed by the
\* resizeCanvasToContainer() call of the mount effect.
RefsAtMount(theme, vp) ==
    [ rocket |-> [x |-> Max(MinCanvas, vp.w) \div 2 - RocketWidth \div 2,
                  y |-> Max(MinCanvas, vp.h) \div 2 - RocketHeight \div 2],
      bullets |-> <<>>, enemies |-> <<>>, particles |-> <<>>,
      spawnAccumulator |-> 0, spawnInterval |-> SpawnIntervalStart,
      difficultyTimer |-> 0, screenShake |-> 0,
      powerUps |-> <<>>, scoreOrbs |-> <<>>, wells |-> <<>>, beams |-> <<>>,
      bossTimer |-> 0, eventTimer |-> 0, eventActive |-> "none",
      eventTimeLeft |-> 0, meteorSpawnAcc |-> 0,
      hasShield |-> FALSE, shieldTimer |-> 0, slowMo |-> 0, magnet |-> 0,
      homing |-> 0, spread |-> 0, laser |-> 0,
      multiplier |-> ComboFloor, comboTimer |-> 0,
      pause |-> FALSE,
      currentThemeIdx |-> theme, nextThemeIdx |-> (theme + 1) % NumThemes,
      themeBlend |-> 0, themeTimer |-> 0, themeTransitioning |-> FALSE,
      lastTime |-> "null", pressedKeys |-> {}, aimPosition |-> NoAim ]

\* ------------------------------------------------------------------------
\* resetGame, startGame, shootBullet
\* ------------------------------------------------------------------------
\* resetGame clearing the score orbs as well.
resetGameOrbsCleared(r, rect) ==
    [r EXCEPT !.bullets = <<>>, !.enemies = <<>>, !.particles = <<>>,
              !.scoreOrbs = <<>>,
              !.spawnAccumulator = 0, !.spawnInterval = SpawnIntervalStart,
              !.difficultyTimer = 0, !.lastTime = "null", !.screenShake = 0,
              !.rocket = [x |-> Quot(rect.w, 2) - RocketWidth \div 2,
                          y |-> Quot(rect.h, 2) - RocketHeight \div 2]]

\* resetGame(): the refs it assigns; setScore(0) is done by startGame below.
resetGame(r, rect) ==
    [r EXCEPT !.bullets = <<>>, !.enemies = <<>>, !.particles = <<>>,
              !.spawnAccumulator = 0, !.spawnInterval = SpawnIntervalStart,
              !.difficultyTimer = 0, !.lastTime = "null", !.screenShake = 0,
              !.rocket = [x |-> Quot(rect.w, 2) - RocketWidth \div 2,
                          y |-> Quot(rect.h, 2) - RocketHeight \div 2]]

\* resizeCanvasToContainer() (lines 271-299), the part that touches the
\* simulation: the rocket is centred if it sits at (0, 0), else clamped.
resizeCanvasToContainer(r, c) ==
    LET cv == canvasOf(c)
    IN  IF r.rocket.x = 0 /\ r.rocket.y = 0
        THEN [r EXCEPT !.rocket = [x |-> cv.w \div 2 - RocketWidth \div 2,
                                   y |-> cv.h \div 2 - RocketHeight \div 2]]
        ELSE [r EXCEPT !.rocket = [x |-> clamp(r.rocket.x, 0, cv.w - RocketWidth),
                                   y |-> clamp(r.rocket.y, 0, cv.h - RocketHeight)]]

RocketCenter(r) ==
    [x |-> r.rocket.x + RocketWidth \div 2, y |-> r.rocket.y + RocketHeight \div 2]

\* Direction from the rocket centre to the aim point (default: one pixel up).
AimDirection(r) ==
    LET c == RocketCenter(r)
        aim == IF ~r.aimPosition.known THEN [x |-> c.x, y |-> c.y - 10]
               ELSE r.aimPosition
    IN  normalize(aim.x - c.x, aim.y - c.y)

\* Nose tip: centre + direction * (rocket.width * 0.52).
NoseOrigin(r) ==
    LET c == RocketCenter(r)
        d == AimDirection(r)
        noseOffset == Quot(RocketWidth * 52, 100)
    IN  [x |-> c.x + Scale(d.x, noseOffset), y |-> c.y + Scale(d.y, noseOffset)]

makeBullet(origin, dir) ==
    [x |-> origin.x, y |-> origin.y, dx |-> dir.x, dy |-> dir.y, homing |-> FALSE]

\* Rotation of direction d by the spread angle 0.18 rad (sign sgn):
\* cos 0.18 = 0.984, sin 0.18 = 0.179.  Math.atan2(0, 0) is 0.
SpreadDir(d, sgn) ==
    LET u == IF d.x = 0 /\ d.y = 0 THEN [x |-> 1000, y |-> 0] ELSE d
    IN  [x |-> Quot(u.x * 984 - sgn * u.y * 179, 1000),
         y |-> Quot(u.y * 984 + sgn * u.x * 179, 1000)]

\* The 8 muzzle flash particles (Math.random() taken as 0 / 0.5).
MuzzleFlash(origin, d) ==
    Repeat([x |-> origin.x + Scale(d.x, 40), y |-> origin.y + Scale(d.y, 40),
            vx |-> Scale(d.x, 2000), vy |-> Scale(d.y, 2000),
            life |-> 0, maxLife |-> 180], 8)

\* shootBullet asking for the spread before the laser.
shootBulletSpreadFirst(r) ==
    LET d == AimDirection(r)
        origin == NoseOrigin(r)
    IN  IF r.spread > 0
        THEN [r EXCEPT !.bullets = @ \o <<makeBullet(origin, SpreadDir(d, -1)),
                                          makeBullet(origin, d),
                                          makeBullet(origin, SpreadDir(d, 1))>>,
                       !.particles = @ \o MuzzleFlash(origin, d)]
        ELSE IF r.laser > 0
        THEN [r EXCEPT !.beams = Append(@, [ox |-> origin.x, oy |-> origin.y,
                                            dx |-> d.x, dy |-> d.y,
                                            width |-> BeamWidth, ttl |-> BeamTtl])]
        ELSE [r EXCEPT !.bullets = Append(@, makeBullet(origin, d)),
                       !.particles = @ \o MuzzleFlash(origin, d)]

\* Lines 413-471: the laser branch returns at line 436, before the muzzle
\* flash of lines 456-471.
shootBullet(r) ==
    LET d == AimDirection(r)
        origin == NoseOrigin(r)
    IN  IF r.laser > 0
        THEN [r EXCEPT !.beams = Append(@, [ox |-> origin.x, oy |-> origin.y,
                                            dx |-> d.x, dy |-> d.y,
                                            width |-> BeamWidth, ttl |-> BeamTtl])]
        ELSE LET shots == IF r.spread > 0
                          THEN <<makeBullet(origin, SpreadDir(d, -1)),
                                 makeBullet(origin, d),
                                 makeBullet(origin, SpreadDir(d, 1))>>
                          ELSE <<makeBullet(origin, d)>>
             IN  [r EXCEPT !.bullets = @ \o shots,
                           !.particles = @ \o MuzzleFlash(origin, d)]


\* ------------------------------------------------------------------------
\* update(dt, width, height), step by step.  A frame record f holds the refs
\* together with the React state written by update and the history fields.
\* ------------------------------------------------------------------------
MkFrame(r, sc, md, ds, nid) ==
    r @@ [score |-> sc, mode |-> md, destroyed |-> ds, nextId |-> nid,
          fatal |-> FALSE, spawned |-> 0, boss |-> FALSE, eff |-> 0, at |-> <<>>]

\* The refs of a frame record.
RefsOf(f) == [k \in DOMAIN RefsAtMount(0, [w |-> MinCanvas, h |-> MinCanvas]) |-> f[k]]

\* Values of the Math.random() calls of one frame.
\*   themeOff  pickNextThemeIndex: the index picked is exclude + themeOff
\*   edge      spawnEnemy: 0 top, 1 right, 2 bottom, 3 left
\*   along     spawnEnemy / meteor / golem: position along the edge, percent
\*   roll      spawnEnemy: the draw compared with ufoChance, percent
\*   big       spawnEnemy: largest (TRUE) or smallest size of the kind
\*   hpBonus   spawnEnemy: asteroid hp 2 + hpBonus
\*   fast      spawnEnemy: fastest (TRUE) or slowest speed
\*   bossKind  boss wave: which boss
\*   orbs      onEnemyDestroyed: number of score orbs
\*   homing    bullets: whether a bullet turns homing
ThemeOffsets == {1, 3}
Edges == {0, 3}
Alongs == {50}
Rolls == {10, 99}
HpBonuses == {0}
OrbCounts == {2, 4}
Draws ==
    [themeOff : ThemeOffsets, edge : Edges, along : Alongs, roll : Rolls,
     big : {TRUE}, hpBonus : HpBonuses, fast : {TRUE}, bossKind : BossKinds,
     orbs : OrbCounts, homing : BOOLEAN]

\* MoveRocket with the two clamp calls of lines 685-686 left out.
MoveRocketUnclamped(f, dt, vp) ==
    LET pressed == f.pressedKeys
        moveX == IF "a" \in pressed /\ "d" \notin pressed THEN -1
                 ELSE IF "d" \in pressed /\ "a" \notin pressed THEN 1 ELSE 0
        moveY == IF "w" \in pressed /\ "s" \notin pressed THEN -1
                 ELSE IF "s" \in pressed /\ "w" \notin pressed THEN 1 ELSE 0
        n == normalize(moveX * 1000, moveY * 1000)
    IN  [f EXCEPT !.rocket = [x |-> @.x + Quot(n.x * RocketSpeed * dt, 1000000),
                              y |-> @.y + Quot(n.y * RocketSpeed * dt, 1000000)]]

\* Lines 666-686: movement keys to a direction, integrate, clamp.
MoveRocket(f, dt, vp) ==
    LET pressed == f.pressedKeys
        left == "a" \in pressed
        right == "d" \in pressed
        up == "w" \in pressed
        down == "s" \in pressed
        moveX == IF left /\ ~right THEN -1 ELSE IF right /\ ~left THEN 1 ELSE 0
        moveY == IF up /\ ~down THEN -1 ELSE IF down /\ ~up THEN 1 ELSE 0
        n == normalize(moveX * 1000, moveY * 1000)
        x1 == IF moveX # 0 \/ moveY # 0
              THEN f.rocket.x + Quot(n.x * RocketSpeed * dt, 1000000)
              ELSE f.rocket.x
        y1 == IF moveX # 0 \/ moveY # 0
              THEN f.rocket.y + Quot(n.y * RocketSpeed * dt, 1000000)
              ELSE f.rocket.y
    IN  [f EXCEPT !.rocket = [x |-> clamp(x1, 0, vp.w - RocketWidth),
                              y |-> clamp(y1, 0, vp.h - RocketHeight)]]

\* A pick that can return the excluded index.
pickNextThemeIndexAny(exclude, off) == (exclude + off + 2) % NumThemes

\* pickNextThemeIndex(exclude): redraws until the index differs from exclude,
\* so it returns one of the other indices.
pickNextThemeIndex(exclude, off) ==
    IF NumThemes <= 1 THEN exclude ELSE (exclude + off) % NumThemes

\* Lines 688-704: theme rotation and crossfade.
ThemeStep(f, dt, rnd) ==
    LET t1 == f.themeTimer + dt
        begin == ~f.themeTransitioning /\ t1 > ThemeDuration
        a == IF begin
             THEN [f EXCEPT !.themeTransitioning = TRUE, !.themeBlend = 0,
                            !.themeTimer = 0,
                            !.nextThemeIdx =
                                pickNextThemeIndex(f.currentThemeIdx, rnd.themeOff)]
             ELSE [f EXCEPT !.themeTimer = t1]
    IN  IF ~a.themeTransitioning THEN a
        ELSE IF a.themeBlend + dt >= BlendFull
             THEN [a EXCEPT !.themeBlend = 0, !.themeTransitioning = FALSE,
                            !.currentThemeIdx = a.nextThemeIdx,
                            !.nextThemeIdx =
                                pickNextThemeIndex(a.nextThemeIdx, rnd.themeOff)]
             ELSE [a EXCEPT !.themeBlend = @ + dt]

\* Lines 706-710: combo decay, 0.4 per second once idle for more than 2.5 s.
ComboDecay(f, dt) ==
    LET t == f.comboTimer + dt
    IN  [f EXCEPT !.comboTimer = t,
                  !.multiplier = IF t > ComboIdle
                                 THEN Max(ComboFloor, @ - dt * 4) ELSE @]

\* The difficulty ramp without the floor of 220 ms.
DifficultyStepNoFloor(f, dt) ==
    LET t == f.difficultyTimer + dt
    IN  IF t > DifficultyPeriod
        THEN [f EXCEPT !.difficultyTimer = 0, !.spawnInterval = @ - SpawnIntervalStep]
        ELSE [f EXCEPT !.difficultyTimer = t]

\* Lines 712-717: difficulty ramp.
DifficultyStep(f, dt) ==
    LET t == f.difficultyTimer + dt
    IN  IF t > DifficultyPeriod
        THEN [f EXCEPT !.difficultyTimer = 0,
                       !.spawnInterval = Max(SpawnIntervalMin, @ - SpawnIntervalStep)]
        ELSE [f EXCEPT !.difficultyTimer = t]

IsBoss(e) == e.kind \in BossKinds
bossAlive(f) == \E i \in 1 .. Len(f.enemies) : IsBoss(f.enemies[i])

\* getEffectiveThemeBlend + the choice of spawnEnemy: themeB while blending.
SpawnTheme(f) ==
    LET blend == IF f.themeTransitioning THEN clamp(f.themeBlend, 0, BlendFull) ELSE 0
    IN  IF blend > 0 THEN f.nextThemeIdx ELSE f.currentThemeIdx

\* Lines 493-555: one regular enemy from a viewport edge, aimed at the rocket.
spawnEnemy(f, vp, rnd) ==
    LET theme == SpawnTheme(f) + 1
        px == IF rnd.edge = 0 \/ rnd.edge = 2 THEN Quot(rnd.along * vp.w, 100)
              ELSE IF rnd.edge = 1 THEN vp.w + 200 ELSE -200
        py == IF rnd.edge = 0 THEN -200
              ELSE IF rnd.edge = 2 THEN vp.h + 200
              ELSE Quot(rnd.along * vp.h, 100)
        kind == IF rnd.roll < ThemeUfoChance[theme] THEN "ufo" ELSE "asteroid"
        base == IF rnd.big THEN 380 ELSE 200
        w == IF kind = "asteroid" THEN base * 2 ELSE IF rnd.big THEN 640 ELSE 520
        h == IF kind = "asteroid" THEN base * 2 ELSE IF rnd.big THEN 320 ELSE 260
        hp == IF kind = "asteroid" THEN 20 + 10 * rnd.hpBonus ELSE 20
        c == RocketCenter(f)
        dir == normalize(c.x - px, c.y - py)
        speed == Quot((IF rnd.fast THEN 2300 ELSE 900) * ThemeSpeed[theme], 100)
        e == [id |-> f.nextId, x |-> px - w \div 2, y |-> py - h \div 2,
              w |-> w, h |-> h, vx |-> Scale(dir.x, speed), vy |-> Scale(dir.y, speed),
              kind |-> kind, hp |-> hp]
    IN  [f EXCEPT !.enemies = Append(@, e), !.nextId = @ + 1, !.spawned = @ + 1]

RECURSIVE SpawnLoop(_, _, _, _, _)
SpawnLoop(f, vp, rnd, step, boss) ==
    IF f.spawnAccumulator < step THEN f
    ELSE LET g == [f EXCEPT !.spawnAccumulator = @ - step]
         IN  SpawnLoop(IF boss THEN g ELSE spawnEnemy(g, vp, rnd), vp, rnd, step, boss)

\* The spawn step spawning at the plain interval also while a boss is alive.
SpawnStepBossIgnored(f, dt, vp, rnd) ==
    LET g == [f EXCEPT !.spawnAccumulator = @ + dt, !.boss = bossAlive(f)]
    IN  SpawnLoop(g, vp, rnd, g.spawnInterval, FALSE)

\* Lines 719-727: the spawn accumulator.
SpawnStep(f, dt, vp, rnd) ==
    LET boss == bossAlive(f)
        g == [f EXCEPT !.spawnAccumulator = @ + dt, !.boss = boss]
        step == IF boss THEN Quot(g.spawnInterval * 18, 10) ELSE g.spawnInterval
    IN  SpawnLoop(g, vp, rnd, step, boss)

\* The boss step not asking whether a boss is alive.
BossStepAnyTime(f, dt, vp, rnd) ==
    LET t == f.bossTimer + dt
        ufo == [id |-> f.nextId, x |-> Quot(vp.w, 2) - 1200, y |-> -1000,
                w |-> 2400, h |-> 1200, vx |-> 0, vy |-> 400,
                kind |-> "bossUfo", hp |-> 500]
        golem == [id |-> f.nextId, x |-> Quot(rnd.along * (vp.w - 1600), 100),
                  y |-> -1600, w |-> 1600, h |-> 1600, vx |-> 0, vy |-> 350,
                  kind |-> "bossGolem", hp |-> 600]
    IN  IF t > BossPeriod
        THEN [f EXCEPT !.bossTimer = 0, !.nextId = @ + 1,
                       !.enemies = Append(@, IF rnd.bossKind = "bossUfo"
                                             THEN ufo ELSE golem)]
        ELSE [f EXCEPT !.bossTimer = t]

\* Lines 729-762: boss waves, with the bossAlive of the spawn step.
BossStep(f, dt, vp, rnd) ==
    LET t == f.bossTimer + dt
        ufo == [id |-> f.nextId, x |-> Quot(vp.w, 2) - 1200, y |-> -1000,
                w |-> 2400, h |-> 1200, vx |-> 0, vy |-> 400,
                kind |-> "bossUfo", hp |-> 500]
        golem == [id |-> f.nextId, x |-> Quot(rnd.along * (vp.w - 1600), 100),
                  y |-> -1600, w |-> 1600, h |-> 1600, vx |-> 0, vy |-> 350,
                  kind |-> "bossGolem", hp |-> 600]
    IN  IF ~f.boss /\ t > BossPeriod
        THEN [f EXCEPT !.bossTimer = 0, !.nextId = @ + 1,
                       !.enemies = Append(@, IF rnd.bossKind = "bossUfo"
                                             THEN ufo ELSE golem)]
        ELSE [f EXCEPT !.bossTimer = t]

\* A hazard meteor (lines 779-792), smallest size, slowest fall.
Meteor(f, vp, rnd) ==
    [id |-> f.nextId, x |-> Quot(rnd.along * vp.w, 100), y |-> -140 - 100,
     w |-> 180, h |-> 140, vx |-> 0, vy |-> 2600, kind |-> "asteroid", hp |-> 10]

RECURSIVE MeteorLoop(_, _, _)
MeteorLoop(f, vp, rnd) ==
    IF f.meteorSpawnAcc > MeteorInterval
    THEN MeteorLoop([f EXCEPT !.meteorSpawnAcc = @ - MeteorInterval,
                              !.enemies = Append(@, Meteor(f, vp, rnd)),
                              !.nextId = @ + 1], vp, rnd)
    ELSE f

\* Lines 764-797: the meteor shower event.
EventStep(f, dt, vp, rnd) ==
    LET t == f.eventTimer + dt
        a == IF f.eventActive = "none" /\ t > EventIdle
             THEN [f EXCEPT !.eventActive = "meteor", !.eventTimeLeft = EventLength,
                            !.eventTimer = 0, !.meteorSpawnAcc = 0]
             ELSE [f EXCEPT !.eventTimer = t]
    IN  IF a.eventActive # "meteor" THEN a
        ELSE LET b == MeteorLoop([a EXCEPT !.eventTimeLeft = @ - dt,
                                           !.meteorSpawnAcc = @ + dt], vp, rnd)
             IN  IF b.eventTimeLeft <= 0 THEN [b EXCEPT !.eventActive = "none"] ELSE b


\* Displacement over the effective time step eff, which is in tenths of a
\* millisecond (dt * 0.6 is not a whole number of milliseconds).
TravelE(v, eff) == Quot(v * eff, 10000)

\* Lines 799-803: gravity wells drift.
WellsDrift(f, dt) ==
    [f EXCEPT !.wells = [i \in 1 .. Len(@) |->
        [@[i] EXCEPT !.x = @ + Travel(f.wells[i].dx, dt),
                     !.y = @ + Travel(f.wells[i].dy, dt)]]]

\* The slow-mo scale with every tick taken at full speed.
effectiveDtFull(f, dt) == dt * 10

\* Lines 805-807: the slow-mo scale; the result is the effective step.
effectiveDt(f, dt) == IF f.slowMo > 0 THEN dt * 6 ELSE dt * 10
SlowMoStep(f, dt) ==
    [f EXCEPT !.eff = effectiveDt(f, dt),
              !.slowMo = IF f.slowMo > 0 THEN @ - dt ELSE @]

\* Lines 815-824: the pull of the wells on one enemy, well after well.
RECURSIVE Pull(_, _, _, _)
Pull(e, wells, i, eff) ==
    IF i > Len(wells) THEN e
    ELSE LET w == wells[i]
             tx == w.x - (e.x + e.w \div 2)
             ty == w.y - (e.y + e.h \div 2)
             len == length(tx, ty)
             d == IF len = 0 THEN 1 ELSE len
             pull == Quot((w.radius - d) * w.strength, w.radius)
         IN  IF d < w.radius
             THEN Pull([e EXCEPT !.vx = @ + TravelE(Quot(tx * pull, d), eff),
                                 !.vy = @ + TravelE(Quot(ty * pull, d), eff)],
                       wells, i + 1, eff)
             ELSE Pull(e, wells, i + 1, eff)

\* Lines 809-825: enemies move by velocity * effectiveDt.
EnemiesMove(f, eff) ==
    [f EXCEPT !.enemies = [i \in 1 .. Len(@) |->
        Pull([@[i] EXCEPT !.x = @ + TravelE(f.enemies[i].vx, eff),
                          !.y = @ + TravelE(f.enemies[i].vy, eff)],
             f.wells, 1, eff)]]

Dist2(ax, ay, bx, by) == (ax - bx) * (ax - bx) + (ay - by) * (ay - by)

\* Lines 835-845: index of the nearest enemy (the first among equals), 0 if none.
RECURSIVE Nearest(_, _, _, _)
Nearest(b, es, i, best) ==
    IF i > Len(es) THEN best
    ELSE LET d == Dist2(es[i].x + es[i].w \div 2, es[i].y + es[i].h \div 2, b.x, b.y)
             bd == Dist2(es[best].x + es[best].w \div 2,
                         es[best].y + es[best].h \div 2, b.x, b.y)
         IN  Nearest(b, es, i + 1, IF best = 0 \/ d < bd THEN i ELSE best)

\* Lines 828-860: one bullet: homing flag, steering, integration.
BulletMove(b, f, eff, rnd) ==
    LET hom == IF f.homing > 0 /\ ~b.homing THEN rnd.homing ELSE b.homing
        k == IF hom THEN Nearest(b, f.enemies, 1, 0) ELSE 0
        steered ==
            IF k = 0 THEN [x |-> b.dx, y |-> b.dy]
            ELSE LET e == f.enemies[k]
                     desired == normalize(e.x + e.w \div 2 - b.x, e.y + e.h \div 2 - b.y)
                     lx == lerp(b.dx, desired.x, 8)
                     ly == lerp(b.dy, desired.y, 8)
                     L == length(lx, ly)
                 IN  IF L = 0 THEN [x |-> lx, y |-> ly]
                     ELSE [x |-> Quot(lx * 1000, L), y |-> Quot(ly * 1000, L)]
    IN  [b EXCEPT !.homing = hom, !.dx = steered.x, !.dy = steered.y,
                  !.x = @ + TravelE(Scale(steered.x, BulletSpeed), eff),
                  !.y = @ + TravelE(Scale(steered.y, BulletSpeed), eff)]

BulletsMove(f, eff, rnd) ==
    [f EXCEPT !.bullets = [i \in 1 .. Len(@) |-> BulletMove(@[i], f, eff, rnd)]]

\* Lines 869-880: whether beam b reaches enemy e (capsule test).
InBeam(b, e) ==
    LET nx == -b.dy
        ny == b.dx
        half == b.width \div 2 + 20
        tx == e.x + e.w \div 2 - b.ox
        ty == e.y + e.h \div 2 - b.oy
        distSide == Abs(Quot(tx * nx + ty * ny, 1000))
        along == Quot(tx * b.dx + ty * b.dy, 1000)
    IN  distSide < half /\ along > -200

\* Damage of the beams on one enemy: 0.8 hp per beam that reaches it.
BeamHits(f, e) == Cardinality({i \in 1 .. Len(f.beams) : InBeam(f.beams[i], e)})

\* BeamsStep with only the beams that stay doing damage.
BeamsStepLiveOnly(f, dt) ==
    LET aged == [i \in 1 .. Len(f.beams) |-> [f.beams[i] EXCEPT !.ttl = @ - dt]]
        alive(b) == b.ttl > 0
        live == [f EXCEPT !.beams = SelectSeq(aged, alive)]
    IN  [live EXCEPT !.enemies = [i \in 1 .. Len(@) |->
                      [@[i] EXCEPT !.hp = @ - BeamDamage * BeamHits(live, f.enemies[i])]]]

\* Lines 863-883: beams lose dt of ttl, damage the enemies they reach, and
\* are kept while ttl > 0.  Nothing is removed from the enemies here.
BeamsStep(f, dt) ==
    LET aged == [i \in 1 .. Len(f.beams) |-> [f.beams[i] EXCEPT !.ttl = @ - dt]]
        alive(b) == b.ttl > 0
    IN  [f EXCEPT !.beams = SelectSeq(aged, alive),
                  !.enemies = [i \in 1 .. Len(@) |->
                      [@[i] EXCEPT !.hp = @ - BeamDamage * BeamHits(f, f.enemies[i])]]]

rectCircleCollide(rx, ry, rw, rh, cx, cy, radius) ==
    LET closestX == clamp(cx, rx, rx + rw)
        closestY == clamp(cy, ry, ry + rh)
    IN  Dist2(cx, cy, closestX, closestY) <= radius * radius

rectRectOverlap(ax, ay, aw, ah, bx, by, bw, bh) ==
    ax < bx + bw /\ ax + aw > bx /\ ay < by + bh /\ ay + ah > by

\* Lines 557-603: the explosion particles (Math.random() taken as 0) and
\* the screen shake.
createExplosion(f, cx, cy, kind) ==
    LET hot == [x |-> cx, y |-> cy, vx |-> 960, vy |-> 0, life |-> 0, maxLife |-> 500]
        smoke == [x |-> cx, y |-> cy, vx |-> 360, vy |-> 0, life |-> 0, maxLife |-> 700]
        cool == [x |-> cx, y |-> cy, vx |-> 1200, vy |-> 0, life |-> 0, maxLife |-> 500]
        burst == IF kind = "asteroid" THEN Repeat(hot, 30) \o Repeat(smoke, 30)
                 ELSE Repeat(cool, 24)
    IN  [f EXCEPT !.particles = @ \o burst,
                  !.screenShake = Max(@, ShakeKick)]

\* The award with the multiplier rounded to the nearest integer.
KillScoreRounded(m) == Max(1, (m + 5000) \div ComboFloor)

\* The score awarded for a kill: Math.max(1, Math.floor(multiplier)).
KillScore(m) == Max(1, m \div ComboFloor)

\* KillMultiplier without the Math.min(5, ...) of line 610.
KillMultiplierUncapped(m) == m + ComboStep

\* The multiplier after a kill: Math.min(5, multiplier + 0.2).
KillMultiplier(m) == Min(ComboCap, m + ComboStep)

\* onEnemyDestroyed with the award of line 608 taken off the score.
onEnemyDestroyedMinus(f, e, rnd) ==
    createExplosion([f EXCEPT !.score = @ - KillScore(f.multiplier),
                              !.multiplier = KillMultiplier(@),
                              !.comboTimer = 0,
                              !.scoreOrbs = @ \o Repeat([x |-> e.x + e.w \div 2,
                                                         y |-> e.y + e.h \div 2,
                                                         vx |-> 600, vy |-> 0,
                                                         value |-> 1], rnd.orbs),
                              !.destroyed = Append(@, e.id)],
                    e.x + e.w \div 2, e.y + e.h \div 2, e.kind)

\* Lines 605-620: score, combo, score orbs, explosion.
onEnemyDestroyed(f, e, rnd) ==
    LET cx == e.x + e.w \div 2
        cy == e.y + e.h \div 2
        orb == [x |-> cx, y |-> cy, vx |-> 600, vy |-> 0, value |-> 1]
        g == [f EXCEPT !.score = @ + KillScore(f.multiplier),
                       !.multiplier = KillMultiplier(@),
                       !.comboTimer = 0,
                       !.scoreOrbs = @ \o Repeat(orb, rnd.orbs),
                       !.destroyed = Append(@, e.id)]
    IN  createExplosion(g, cx, cy, e.kind)

ImpactParticle(b) ==
    [x |-> b.x, y |-> b.y, vx |-> 0, vy |-> 0, life |-> 0, maxLife |-> 250]

\* HitLoop with an impact taking 2 hp (line 907).
RECURSIVE HitLoopDouble(_, _, _, _)
HitLoopDouble(f, e, i, rnd) ==
    IF i > Len(f.bullets) THEN [f |-> f, e |-> e, dead |-> FALSE]
    ELSE LET b == f.bullets[i]
         IN  IF rectCircleCollide(e.x, e.y, e.w, e.h, b.x, b.y, BulletRadius)
             THEN LET g == [f EXCEPT !.bullets = SubSeq(@, 1, i - 1)
                                                  \o SubSeq(@, i + 1, Len(@))]
                      e1 == [e EXCEPT !.hp = @ - 2 * BulletDamage]
                  IN  IF e1.hp <= 0
                      THEN [f |-> onEnemyDestroyed(g, e1, rnd), e |-> e1, dead |-> TRUE]
                      ELSE HitLoopDouble(g, e1, i, rnd)
             ELSE HitLoopDouble(f, e, i + 1, rnd)

\* Lines 891-925: the bullets against one enemy e, from bullet i on.  The
\* result is the frame (bullets spliced, particles, kill effects) and the
\* enemy, or the frame alone when the enemy is destroyed.
RECURSIVE HitLoop(_, _, _, _)
HitLoop(f, e, i, rnd) ==
    IF i > Len(f.bullets) THEN [f |-> f, e |-> e, dead |-> FALSE]
    ELSE LET b == f.bullets[i]
         IN  IF rectCircleCollide(e.x, e.y, e.w, e.h, b.x, b.y, BulletRadius)
             THEN LET g == [f EXCEPT !.bullets = SubSeq(@, 1, i - 1)
                                                  \o SubSeq(@, i + 1, Len(@)),
                                     !.particles = Append(@, ImpactParticle(b))]
                      e1 == [e EXCEPT !.hp = @ - BulletDamage]
                  IN  IF e1.hp <= 0
                      THEN [f |-> onEnemyDestroyed(g, e1, rnd), e |-> e1, dead |-> TRUE]
                      ELSE HitLoop(g, e1, i, rnd)
             ELSE HitLoop(f, e, i + 1, rnd)

\* Lines 885-927: every enemy in turn; the survivors are collected in keep.
RECURSIVE BulletEnemyLoop(_, _, _, _)
BulletEnemyLoop(f, k, keep, rnd) ==
    IF k > Len(f.enemies) THEN [f EXCEPT !.enemies = keep]
    ELSE LET r == HitLoop(f, f.enemies[k], 1, rnd)
         IN  BulletEnemyLoop(r.f, k + 1, IF r.dead THEN keep ELSE Append(keep, r.e), rnd)

BulletsVsEnemies(f, rnd) == BulletEnemyLoop(f, 1, <<>>, rnd)

BulletOnScreen(b, vp) ==
    /\ b.x + BulletRadius >= 0
    /\ b.x - BulletRadius <= vp.w
    /\ b.y + BulletRadius >= 0
    /\ b.y - BulletRadius <= vp.h

\* The enemy test without the 80 px margin.
EnemyOnScreen(e, vp) ==
    /\ e.x + e.w >= 0
    /\ e.x <= vp.w
    /\ e.y + e.h >= 0
    /\ e.y <= vp.h

EnemyInMargin(e, vp) ==
    /\ e.x + e.w >= -EnemyMargin
    /\ e.x <= vp.w + EnemyMargin
    /\ e.y + e.h >= -EnemyMargin
    /\ e.y <= vp.h + EnemyMargin

\* Lines 929-947: off-screen bullets and far enemies are dropped.
Prune(f, vp) ==
    LET keepB(b) == BulletOnScreen(b, vp)
        keepE(e) == EnemyInMargin(e, vp)
    IN  [f EXCEPT !.bullets = SelectSeq(@, keepB), !.enemies = SelectSeq(@, keepE)]


\* Lines 951-960: one score orb: magnet steering, then integration.
OrbMove(o, f, eff) ==
    LET c == RocketCenter(f)
        dir == normalize(c.x - o.x, c.y - o.y)
        vx == IF f.magnet > 0 THEN lerp(o.vx, Scale(dir.x, 2200), 8) ELSE o.vx
        vy == IF f.magnet > 0 THEN lerp(o.vy, Scale(dir.y, 2200), 8) ELSE o.vy
    IN  [o EXCEPT !.vx = vx, !.vy = vy,
                  !.x = @ + TravelE(vx, eff), !.y = @ + TravelE(vy, eff)]

OrbInReach(o, f) ==
    LET c == RocketCenter(f)
    IN  Dist2(o.x, o.y, c.x, c.y) < OrbPickup * OrbPickup

RECURSIVE SumValues(_)
SumValues(os) == IF os = <<>> THEN 0 ELSE Head(os).value + SumValues(Tail(os))

\* Lines 949-969: orbs within 26 px of the rocket centre are collected.
OrbsStep(f, eff) ==
    LET moved == [i \in 1 .. Len(f.scoreOrbs) |-> OrbMove(f.scoreOrbs[i], f, eff)]
        taken(o) == OrbInReach(o, f)
        left(o) == ~OrbInReach(o, f)
    IN  [f EXCEPT !.scoreOrbs = SelectSeq(moved, left),
                  !.score = @ + SumValues(SelectSeq(moved, taken))]

PowerUpInReach(p, f) ==
    LET c == RocketCenter(f)
        r == p.radius + Quot(Max(RocketWidth, RocketHeight) * 25, 100)
    IN  Dist2(p.x, p.y, c.x, c.y) < r * r

\* Collect with the listed duration added to the one that is left.
CollectAdding(f, type) ==
    IF type = "shield" THEN [f EXCEPT !.hasShield = TRUE, !.shieldTimer = @ + 8000]
    ELSE IF type = "slowmo" THEN [f EXCEPT !.slowMo = @ + 6000]
    ELSE IF type = "magnet" THEN [f EXCEPT !.magnet = @ + 10000]
    ELSE IF type = "homing" THEN [f EXCEPT !.homing = @ + 10000]
    ELSE IF type = "spread" THEN [f EXCEPT !.spread = @ + 10000]
    ELSE IF type = "laser" THEN [f EXCEPT !.laser = @ + 6000]
    ELSE f

\* Lines 980-993: the effect of collecting one power-up.
Collect(f, type) ==
    IF type = "shield" THEN [f EXCEPT !.hasShield = TRUE, !.shieldTimer = 8000]
    ELSE IF type = "slowmo" THEN [f EXCEPT !.slowMo = 6000]
    ELSE IF type = "magnet" THEN [f EXCEPT !.magnet = 10000]
    ELSE IF type = "homing" THEN [f EXCEPT !.homing = 10000]
    ELSE IF type = "spread" THEN [f EXCEPT !.spread = 10000]
    ELSE IF type = "laser" THEN [f EXCEPT !.laser = 6000]
    ELSE f

RECURSIVE PowerUpLoop(_, _, _, _)
PowerUpLoop(f, i, keep, dt) ==
    IF i > Len(f.powerUps) THEN [f EXCEPT !.powerUps = keep]
    ELSE LET p == [f.powerUps[i] EXCEPT !.ttl = @ - dt]
         IN  IF PowerUpInReach(p, f) THEN PowerUpLoop(Collect(f, p.type), i + 1, keep, dt)
             ELSE IF p.ttl > 0 THEN PowerUpLoop(f, i + 1, Append(keep, p), dt)
             ELSE PowerUpLoop(f, i + 1, keep, dt)

\* Lines 971-998: power-up ttl and collection.
PowerUpsStep(f, dt) == PowerUpLoop(f, 1, <<>>, dt)

\* A duration losing dt whatever it is.
DecayAlways(t, dt) == t - dt

\* A duration that is > 0 loses dt.
Decay(t, dt) == IF t > 0 THEN t - dt ELSE t

\* TimersStep with has-shield left as it is (line 1003 left out).
TimersStepFlagKept(f, dt) ==
    [f EXCEPT !.shieldTimer = Decay(@, dt),
              !.magnet = Decay(@, dt), !.homing = Decay(@, dt),
              !.spread = Decay(@, dt), !.laser = Decay(@, dt)]

\* Lines 1000-1008: the effect timers.
TimersStep(f, dt) ==
    [f EXCEPT !.shieldTimer = Decay(@, dt),
              !.hasShield = IF f.shieldTimer > 0 /\ f.shieldTimer - dt <= 0
                            THEN FALSE ELSE @,
              !.magnet = Decay(@, dt), !.homing = Decay(@, dt),
              !.spread = Decay(@, dt), !.laser = Decay(@, dt)]

\* Lines 1010-1020: particles age by dt, move by effectiveDt, are damped by
\* 0.98 and are kept while life <= maxLife.
ParticlesStep(f, dt, eff) ==
    LET moved == [i \in 1 .. Len(f.particles) |->
                    LET p == f.particles[i]
                    IN  [p EXCEPT !.life = @ + dt,
                                  !.x = @ + TravelE(p.vx, eff),
                                  !.y = @ + TravelE(p.vy, eff),
                                  !.vx = Quot(@ * 98, 100), !.vy = Quot(@ * 98, 100)]]
        young(p) == p.life <= p.maxLife
    IN  [f EXCEPT !.particles = SelectSeq(moved, young)]

\* Lines 622-657: thruster particles, floor(rate * dt) of them.
spawnThruster(f, dt) ==
    LET pressed == f.pressedKeys
        left == "a" \in pressed
        right == "d" \in pressed
        up == "w" \in pressed
        down == "s" \in pressed
        mvx == IF left /\ ~right THEN -1 ELSE IF right /\ ~left THEN 1 ELSE 0
        mvy == IF up /\ ~down THEN -1 ELSE IF down /\ ~up THEN 1 ELSE 0
        moving == mvx # 0 \/ mvy # 0
        dir == IF moving THEN normalize(mvx * 1000, mvy * 1000) ELSE [x |-> 0, y |-> 1000]
        rate == IF moving THEN 90 ELSE 45
        count == (rate * dt) \div 1000
        c == RocketCenter(f)
        p == [x |-> c.x - Scale(dir.x, Quot(RocketWidth * 6, 10)),
              y |-> c.y - Scale(dir.y, Quot(RocketHeight * 6, 10)),
              vx |-> -Scale(dir.x, 1200), vy |-> -Scale(dir.y, 1200),
              life |-> 0, maxLife |-> 350]
    IN  [f EXCEPT !.particles = @ \o Repeat(p, count)]

\* Lines 1025-1026: screen shake decays by 0.9 per frame.
ShakeDecay(f) == IF f.screenShake > 0 THEN [f EXCEPT !.screenShake = Quot(@ * 9, 10)] ELSE f

Overlaps(f, e) ==
    rectRectOverlap(f.rocket.x, f.rocket.y, RocketWidth, RocketHeight,
                    e.x, e.y, e.w, e.h)

\* ShipLoop with the shield left up after it absorbed a hit (lines
\* 1044-1045 left out).
RECURSIVE ShipLoopShieldKept(_, _, _, _)
ShipLoopShieldKept(f, k, survivors, rnd) ==
    IF k > Len(f.enemies) THEN [f EXCEPT !.enemies = survivors]
    ELSE LET e == f.enemies[k]
         IN  IF Overlaps(f, e)
             THEN IF f.hasShield
                  THEN ShipLoopShieldKept(onEnemyDestroyed(f, e, rnd),
                                          k + 1, survivors, rnd)
                  ELSE [f EXCEPT !.mode = "gameover", !.fatal = TRUE,
                                 !.enemies = survivors]
             ELSE ShipLoopShieldKept(f, k + 1, Append(survivors, e), rnd)

\* ShipLoop with the shield duration left running after the shield absorbed
\* a hit (line 1045 left out).
RECURSIVE ShipLoopTimerKept(_, _, _, _)
ShipLoopTimerKept(f, k, survivors, rnd) ==
    IF k > Len(f.enemies) THEN [f EXCEPT !.enemies = survivors]
    ELSE LET e == f.enemies[k]
         IN  IF Overlaps(f, e)
             THEN IF f.hasShield
                  THEN ShipLoopTimerKept(onEnemyDestroyed(
                                             [f EXCEPT !.hasShield = FALSE],
                                             e, rnd),
                                         k + 1, survivors, rnd)
                  ELSE [f EXCEPT !.mode = "gameover", !.fatal = TRUE,
                                 !.enemies = survivors]
             ELSE ShipLoopTimerKept(f, k + 1, Append(survivors, e), rnd)

\* Lines 1028-1055: the rocket against every enemy in turn.  A shield
\* absorbs the hit; without one the game is over and the loop is left, so
\* that only the enemies already passed are kept.
RECURSIVE ShipLoop(_, _, _, _)
ShipLoop(f, k, survivors, rnd) ==
    IF k > Len(f.enemies) THEN [f EXCEPT !.enemies = survivors]
    ELSE LET e == f.enemies[k]
         IN  IF Overlaps(f, e)
             THEN IF f.hasShield
                  THEN ShipLoop(onEnemyDestroyed(
                                    [f EXCEPT !.hasShield = FALSE, !.shieldTimer = 0],
                                    e, rnd),
                                k + 1, survivors, rnd)
                  ELSE [f EXCEPT !.mode = "gameover", !.fatal = TRUE,
                                 !.enemies = survivors]
             ELSE ShipLoop(f, k + 1, Append(survivors, e), rnd)

\* ShipVsEnemies with the collision test of lines 1028-1055 left out.
ShipVsEnemiesSkipped(f, rnd) == f

ShipVsEnemies(f, rnd) == ShipLoop(f, 1, <<>>, rnd)

\* The steps with the ship tested against the enemies before the bullets are.
UpdateStepShipFirst(k, f, dt, vp, rnd) ==
    CASE k = 1 -> MoveRocket(f, dt, vp)
      [] k = 2 -> ThemeStep(f, dt, rnd)
      [] k = 3 -> ComboDecay(f, dt)
      [] k = 4 -> DifficultyStep(f, dt)
      [] k = 5 -> SpawnStep(f, dt, vp, rnd)
      [] k = 6 -> BossStep(f, dt, vp, rnd)
      [] k = 7 -> EventStep(f, dt, vp, rnd)
      [] k = 8 -> WellsDrift(f, dt)
      [] k = 9 -> SlowMoStep(f, dt)
      [] k = 10 -> EnemiesMove(f, f.eff)
      [] k = 11 -> BulletsMove(f, f.eff, rnd)
      [] k = 12 -> BeamsStep(f, dt)
      [] k = 13 -> ShipVsEnemies(f, rnd)
      [] k = 14 -> Prune(f, vp)
      [] k = 15 -> OrbsStep(f, f.eff)
      [] k = 16 -> PowerUpsStep(f, dt)
      [] k = 17 -> TimersStep(f, dt)
      [] k = 18 -> ParticlesStep(f, dt, f.eff)
      [] k = 19 -> spawnThruster(f, dt)
      [] k = 20 -> ShakeDecay(f)
      [] k = 21 -> BulletsVsEnemies(f, rnd)

\* update(dt, width, height) past its two guards: its steps in the order
\* of the code.  Step k acts on the frame that step k - 1 left.
UpdateStep(k, f, dt, vp, rnd) ==
    CASE k = 1 -> MoveRocket(f, dt, vp)
      [] k = 2 -> ThemeStep(f, dt, rnd)
      [] k = 3 -> ComboDecay(f, dt)
      [] k = 4 -> DifficultyStep(f, dt)
      [] k = 5 -> SpawnStep(f, dt, vp, rnd)
      [] k = 6 -> BossStep(f, dt, vp, rnd)
      [] k = 7 -> EventStep(f, dt, vp, rnd)
      [] k = 8 -> WellsDrift(f, dt)
      [] k = 9 -> SlowMoStep(f, dt)
      [] k = 10 -> EnemiesMove(f, f.eff)
      [] k = 11 -> BulletsMove(f, f.eff, rnd)
      [] k = 12 -> BeamsStep(f, dt)
      [] k = 13 -> BulletsVsEnemies(f, rnd)
      [] k = 14 -> Prune(f, vp)
      [] k = 15 -> OrbsStep(f, f.eff)
      [] k = 16 -> PowerUpsStep(f, dt)
      [] k = 17 -> TimersStep(f, dt)
      [] k = 18 -> ParticlesStep(f, dt, f.eff)
      [] k = 19 -> spawnThruster(f, dt)
      [] k = 20 -> ShakeDecay(f)
      [] k = 21 -> ShipVsEnemies(f, rnd)

SpawnSteps == 1 .. 7
UpdateSteps == 1 .. 21

\* History: what the frame holds on entry to the steps in Observed (bullets
\* against enemies, pruning, power-ups, effect timers, rocket against
\* enemies) is kept in f.at, for the properties to read.
Observed == {13, 14, 16, 17, 21}
Seen(f) ==
    [rocket |-> f.rocket, bullets |-> f.bullets, enemies |-> f.enemies,
     powerUps |-> f.powerUps, hasShield |-> f.hasShield,
     shieldTimer |-> f.shieldTimer, slowMo |-> f.slowMo, magnet |-> f.magnet,
     homing |-> f.homing, spread |-> f.spread, laser |-> f.laser,
     multiplier |-> f.multiplier, score |-> f.score, destroyed |-> f.destroyed,
     scoreOrbs |-> f.scoreOrbs, beams |-> f.beams, comboTimer |-> f.comboTimer]
Observe(k, f) == IF k \in Observed THEN [f EXCEPT !.at = (k :> Seen(f)) @@ @] ELSE f

\* The frame that the steps k, k + 1, ... of `steps` leave from frame f.
RECURSIVE RunSteps(_, _, _, _, _, _)
RunSteps(k, steps, f, dt, vp, rnd) ==
    IF k \notin steps THEN f
    ELSE CHOOSE h \in
           { RunSteps(j, steps, g, dt, vp, rnd) :
               g \in {UpdateStep(k, o, dt, vp, rnd) : o \in {Observe(k, f)}},
               j \in {k + 1} } : TRUE

\* The frame update leaves from frame f0 with the draws rnd.
UpdateBody(f0, dt, vp, rnd) == RunSteps(1, UpdateSteps, f0, dt, vp, rnd)

\* ------------------------------------------------------------------------
\* Which Math.random() calls a frame makes.  Whether a theme is picked, an
\* enemy, a boss or a meteor is spawned, or a bullet draws its homing flag
\* depends on the state and on dt alone, so the draws of the calls that are
\* not made are fixed to DefaultDraw: they cannot change the frame.
\* ------------------------------------------------------------------------
DefaultDraw ==
    [themeOff |-> 1, edge |-> 0, along |-> 50, roll |-> 99, big |-> TRUE,
     hpBonus |-> 0, fast |-> TRUE, bossKind |-> "bossUfo", orbs |-> 2,
     homing |-> FALSE]

PicksTheme(f, dt) ==
    \/ ~f.themeTransitioning /\ f.themeTimer + dt > ThemeDuration
    \/ f.themeTransitioning /\ f.themeBlend + dt >= BlendFull

DrawsFor(f, dt, probe) ==
    LET flips == f.homing > 0 /\ \E i \in 1 .. Len(f.bullets) : ~f.bullets[i].homing
    IN  { d \in Draws :
            /\ PicksTheme(f, dt) \/ d.themeOff = DefaultDraw.themeOff
            /\ probe.spawned > 0 \/ (d.edge = DefaultDraw.edge /\ d.roll = DefaultDraw.roll
                                     /\ d.hpBonus = DefaultDraw.hpBonus)
            /\ (~probe.boss /\ f.bossTimer + dt > BossPeriod)
                  \/ d.bossKind = DefaultDraw.bossKind
            /\ probe.nextId > f.nextId \/ d.along = DefaultDraw.along
            /\ flips \/ d.homing = DefaultDraw.homing
            /\ d.orbs = DefaultDraw.orbs }

\* The draws other than the orb count; probe is the frame the spawning
\* steps leave.
DrawsOf(f, dt, vp) ==
    UNION { DrawsFor(f, dt, probe) :
              probe \in {RunSteps(1, SpawnSteps, f, dt, vp, DefaultDraw)} }

\* The frames update() can produce from frame f with the draws d; the orb
\* count is drawn only by a frame that destroys an enemy.
FramesFor(f, dt, vp, d) ==
    UNION { IF g.destroyed # f.destroyed
            THEN { UpdateBody(f, dt, vp, [d EXCEPT !.orbs = o]) : o \in OrbCounts }
            ELSE {g} : g \in {UpdateBody(f, dt, vp, d)} }

\* The frames update() can produce from frame f, over the draws it makes.
Frames(f, dt, vp) == UNION { FramesFor(f, dt, vp, d) : d \in DrawsOf(f, dt, vp) }

\* ------------------------------------------------------------------------
\* Initial states
\* ------------------------------------------------------------------------
NormalView == [w |-> MinCanvas, h |-> MinCanvas]
InitThemes == {0}

\* A session in progress.  startGame() has run (from the menu, or from the
\* game-over screen of an earlier session: resetGame leaves bossTimer,
\* multiplier and comboTimer as that session left them), the keys in `keys`
\* are held, and `frames` frames have run since: the first with dt = 0
\* (lastTimeRef was null), the others 33 ms apart.
RECURSIVE RunFrames(_, _, _)
RunFrames(f, n, first) ==
    IF n = 0 \/ f.mode # "playing" THEN f
    ELSE CHOOSE h \in
           { RunFrames(g, m, FALSE) :
               g \in {UpdateBody(f, IF first THEN 0 ELSE MaxDt, NormalView, DefaultDraw)},
               m \in {n - 1} } : TRUE

WarmFrames == (SpawnIntervalStart \div MaxDt) + 1
\* The theme state a session starts with (resetGame leaves it alone too):
\* as on mount, 34.1 s into a theme, or 3.1 s or 3.99 s into the crossfade
\* to the theme three further.
FreshTheme == [timer |-> 0, blend |-> 0, fading |-> FALSE, off |-> 1]
ThemeStarts ==
    { [FreshTheme EXCEPT !.timer = 34100],
      [timer |-> 3067, blend |-> 3100, fading |-> TRUE, off |-> 3],
      [timer |-> 3957, blend |-> 3990, fading |-> TRUE, off |-> 3] }

Sessions ==
    { [keys |-> {"w"}, bossTimer |-> 44100, multiplier |-> 49000, comboTimer |-> 0,
       theme |-> FreshTheme],
      [keys |-> {}, bossTimer |-> 0, multiplier |-> ComboFloor, comboTimer |-> 2000,
       theme |-> FreshTheme] }

\* The sessions with the theme about to change.
ThemeSessions == { [s EXCEPT !.theme = t] : s \in Sessions, t \in ThemeStarts }

SessionRefs(theme, s) ==
    LET r0 == [RefsAtMount(theme, NormalView) EXCEPT
                   !.pressedKeys = s.keys, !.bossTimer = s.bossTimer,
                   !.multiplier = s.multiplier, !.comboTimer = s.comboTimer,
                   !.themeTimer = s.theme.timer, !.themeBlend = s.theme.blend,
                   !.themeTransitioning = s.theme.fading,
                   !.nextThemeIdx = (theme + s.theme.off) % NumThemes]
        r1 == resetGame(r0, NormalView)
        f == RunFrames(MkFrame(r1, 0, "playing", <<>>, 1), WarmFrames, TRUE)
    IN  [RefsOf(f) EXCEPT !.lastTime = "set"]

NoOp == [op |-> "init", cmd |-> "none", ran |-> FALSE, dt |-> 0,
         vp |-> NormalView, fatal |-> FALSE]

\* The component after mount, showing the menu.
InitMount ==
    /\ mode = "menu" /\ score = 0
    /\ rendered = [mode |-> "menu", score |-> 0]
    /\ \E theme \in InitThemes : refs = RefsAtMount(theme, NormalView)

\* The component in the middle of a session.
InitSession ==
    /\ mode = "playing" /\ score = 0
    /\ rendered = [mode |-> "playing", score |-> 0]
    /\ \E theme \in InitThemes, s \in Sessions : refs = SessionRefs(theme, s)

Init ==
    /\ InitMount \/ InitSession
    /\ container = NormalView
    /\ last = NoOp
    /\ destroyed = <<>>
    /\ nextId = 1
    /\ nTicks = 0
    /\ nInputs = 0


\* ------------------------------------------------------------------------
\* Operations
\* ------------------------------------------------------------------------
\* update without the mode guard of line 660.
updateAnyMode(f, closureMode, dt, vp) == IF f.pause THEN {f} ELSE Frames(f, dt, vp)

\* update(dt, width, height): the frames it can leave.  Lines 659-661: it
\* returns at once unless the mode its closure captured is "playing" and
\* the pause flag is clear.
update(f, closureMode, dt, vp) ==
    IF closureMode # "playing" THEN {f}
    ELSE IF f.pause THEN {f}
    ELSE Frames(f, dt, vp)

\* The dt of a loop callback without the cap of 33 ms.
LoopDtUncapped(lastTime, elapsed) == IF lastTime = "null" THEN 0 ELSE elapsed

\* Lines 1769-1773: dt of a loop callback, `elapsed` ms after the last one.
LoopDt(lastTime, elapsed) == IF lastTime = "null" THEN 0 ELSE Min(MaxDt, elapsed)

\* One loop callback (lines 1764-1778) with the canvas rectangle vp: dt,
\* update, (draw,) next frame.  The loop registered is the one of the
\* committed render, so update reads the mode of that render.
FrameAfter(vps, gaps) ==
    /\ nTicks < MaxTicks
    /\ \E vp \in vps :
       \E elapsed \in (IF refs.lastTime = "null" THEN {0} ELSE gaps) :
         \E dt \in {LoopDt(refs.lastTime, elapsed)},
            f0 \in {MkFrame([refs EXCEPT !.lastTime = "set"], score, mode,
                            destroyed, nextId)} :
             \E g \in update(f0, rendered.mode, dt, vp) :
               /\ refs' = RefsOf(g)
               /\ mode' = g.mode
               /\ score' = g.score
               /\ destroyed' = g.destroyed
               /\ nextId' = g.nextId
               /\ last' = [op |-> "tick", cmd |-> "none",
                           ran |-> (rendered.mode = "playing" /\ ~refs.pause),
                           dt |-> dt, vp |-> vp, fatal |-> g.fatal, at |-> g.at,
                           spawned |-> g.spawned, eff |-> g.eff]
    /\ nTicks' = nTicks + 1
    /\ UNCHANGED <<rendered, container, nInputs>>

Frame(vps) == FrameAfter(vps, Elapsed)

\* The animation frame of the running component.
Tick == Frame({canvasOf(container)})

\* The animation frame any time after the one before: 1 ms, a 60 Hz frame,
\* a slow frame, a tab that was in the background for 5 s.
Gaps == {1, 16, 40, 5000}
TickAnyGap == FrameAfter({canvasOf(container)}, Gaps)

\* update() called with any viewport arguments.
UpdateCall == Frame(Viewports)

\* React commits the state set during a frame and re-runs the effects whose
\* dependencies changed.  [mode, score]: the loop is registered again and
\* the cleanup clears lastTimeRef (line 1786).  [mode]: the handlers are
\* registered again and resizeCanvasToContainer() runs (line 1750).
Render ==
    /\ rendered # [mode |-> mode, score |-> score]
    /\ rendered' = [mode |-> mode, score |-> score]
    /\ refs' = [(IF rendered.mode # mode THEN resizeCanvasToContainer(refs, container)
                 ELSE refs) EXCEPT !.lastTime = "null"]
    /\ last' = [NoOp EXCEPT !.op = "render"]
    /\ UNCHANGED <<mode, score, container, destroyed, nextId, nTicks, nInputs>>

\* The window's resize event (lines 1736-1740).
Resize ==
    /\ nInputs < MaxInputs
    /\ \E c \in Containers \ {container} :
         /\ container' = c
         /\ refs' = resizeCanvasToContainer(refs, c)
    /\ last' = [NoOp EXCEPT !.op = "input", !.cmd = "resize"]
    /\ nInputs' = nInputs + 1
    /\ UNCHANGED <<mode, score, rendered, destroyed, nextId, nTicks>>

\* startGame() called from a handler (lines 319-322).  The update comes
\* from a discrete input event, so React commits it, with the effects of
\* the mode change, before the next event or frame: the closures see mode
\* "playing" from here on and resizeCanvasToContainer() has run.
StartGame(r, cmd) ==
    /\ refs' = resizeCanvasToContainer(resetGame(r, container), container)
    /\ mode' = "playing"
    /\ score' = 0
    /\ rendered' = [mode |-> "playing", score |-> 0]
    /\ last' = [NoOp EXCEPT !.op = "input", !.cmd = cmd]

Stay(r, cmd) ==
    /\ refs' = r
    /\ last' = [NoOp EXCEPT !.op = "input", !.cmd = cmd]
    /\ UNCHANGED <<mode, score, rendered>>

MapCommand(key) == IF key = "e" THEN "mapNext" ELSE "mapPrev"

\* The map switch leaving a crossfade in progress as it is.
SwitchMapKeepsFade(r, key, off) ==
    LET dir == IF key = "e" THEN 1 ELSE -1
        cur == (r.currentThemeIdx + dir + NumThemes) % NumThemes
    IN  [r EXCEPT !.currentThemeIdx = cur,
                  !.nextThemeIdx = pickNextThemeIndex(cur, off),
                  !.themeTimer = 0]

\* Lines 359-368: manual map switch.
SwitchMap(r, key, off) ==
    LET dir == IF key = "e" THEN 1 ELSE -1
        cur == (r.currentThemeIdx + dir + NumThemes) % NumThemes
    IN  [r EXCEPT !.currentThemeIdx = cur,
                  !.nextThemeIdx = pickNextThemeIndex(cur, off),
                  !.themeTransitioning = FALSE, !.themeBlend = 0, !.themeTimer = 0]

\* The map switch as a step; fading records whether it interrupted a
\* crossfade.
SwitchedMap(r, key, off) ==
    /\ refs' = SwitchMap(r, key, off)
    /\ last' = [NoOp EXCEPT !.op = "input", !.cmd = MapCommand(key)]
                  @@ [fading |-> r.themeTransitioning]
    /\ UNCHANGED <<mode, score, rendered>>

\* handleKeyDown with the restart branch of line 349 not asking for the mode.
handleKeyDownRestartAnyMode(key, m, off) ==
    LET r1 == [refs EXCEPT !.pressedKeys = @ \cup ({key} \cap MoveKeys)]
    IN  IF m = "menu" /\ key \in {"enter", " "} THEN StartGame(r1, "start")
        ELSE IF key = "p" THEN Stay([r1 EXCEPT !.pause = ~@], "pause")
        ELSE IF key \in {"r", "enter"} THEN StartGame(r1, "restart")
        ELSE IF m = "playing" /\ key \in {" ", "k"} THEN Stay(shootBullet(r1), "fire")
        ELSE IF key \in {"q", "e"} THEN SwitchedMap(r1, key, off)
        ELSE Stay(r1, "none")

\* handleKeyDown (lines 324-369) for a key that is not auto-repeating; m is
\* the mode its closure captured.  pressedKeysRef is only ever asked for
\* the movement keys, so only those are kept in it.
handleKeyDown(key, m, off) ==
    LET r1 == [refs EXCEPT !.pressedKeys = @ \cup ({key} \cap MoveKeys)]
    IN  IF m = "menu" /\ key \in {"enter", " "} THEN StartGame(r1, "start")
        ELSE IF key = "p" THEN Stay([r1 EXCEPT !.pause = ~@], "pause")
        ELSE IF m = "gameover" /\ key \in {"r", "enter"} THEN StartGame(r1, "restart")
        ELSE IF m = "playing" /\ key \in {" ", "k"} THEN Stay(shootBullet(r1), "fire")
        ELSE IF key \in {"q", "e"} THEN SwitchedMap(r1, key, off)
        ELSE Stay(r1, "none")

KeyDownOf(keys) ==
    /\ nInputs < MaxInputs
    /\ \E key \in keys \ refs.pressedKeys :
       \E off \in (IF key \in {"q", "e"} THEN ThemeOffsets ELSE {1}) :
         handleKeyDown(key, rendered.mode, off)
    /\ nInputs' = nInputs + 1
    /\ UNCHANGED <<container, destroyed, nextId, nTicks>>

KeyDown == KeyDownOf(Keys)

\* Only the movement keys.
MoveKeyDown == KeyDownOf(MoveKeys)

\* handleKeyUp (lines 370-372).
KeyUp ==
    /\ nInputs < MaxInputs
    /\ \E key \in refs.pressedKeys : Stay([refs EXCEPT !.pressedKeys = @ \ {key}], "none")
    /\ nInputs' = nInputs + 1
    /\ UNCHANGED <<container, destroyed, nextId, nTicks>>

\* handleMouseMove (lines 373-378).
MouseMove ==
    /\ nInputs < MaxInputs
    /\ \E p \in AimPoints \ {refs.aimPosition} : Stay([refs EXCEPT !.aimPosition = p], "none")
    /\ nInputs' = nInputs + 1
    /\ UNCHANGED <<container, destroyed, nextId, nTicks>>

\* handleMouseDown (lines 379-411); hit is what a click in the menu landed
\* on: a section tab, or anything else.
handleMouseDown(m, hit) ==
    IF m = "menu"
    THEN IF hit = "section" THEN Stay(refs, "none") ELSE StartGame(refs, "start")
    ELSE IF m = "gameover" THEN StartGame(refs, "restart")
    ELSE Stay(shootBullet(refs), "fire")

MouseDown ==
    /\ nInputs < MaxInputs
    /\ \E hit \in (IF rendered.mode = "menu" THEN {"section", "start"} ELSE {"canvas"}) :
         handleMouseDown(rendered.mode, hit)
    /\ nInputs' = nInputs + 1
    /\ UNCHANGED <<container, destroyed, nextId, nTicks>>

Next == Tick \/ Render \/ Resize \/ KeyDown \/ KeyUp \/ MouseMove \/ MouseDown

Spec == Init /\ [][Next]_vars

\* update() as a function of its arguments: any viewport, any set of held
\* movement keys, from the states of a session.
InitUpdate ==
    /\ InitSession
    /\ container = NormalView
    /\ last = NoOp
    /\ destroyed = <<>>
    /\ nextId = 1
    /\ nTicks = 0
    /\ nInputs = 0

NextUpdate == UpdateCall \/ MoveKeyDown \/ KeyUp

SpecUpdate == InitUpdate /\ [][NextUpdate]_vars

\* The same component with a power-up lying on the rocket.  Nothing in the
\* component ever adds to powerUpsRef, so the power-up is put there by hand:
\* position, radius, type and time-to-live as the PowerUp type declares.
SeededTypes == {"laser", "shield"}

WithPowerUp(r, type) ==
    [r EXCEPT !.powerUps = <<[x |-> RocketCenter(r).x, y |-> RocketCenter(r).y,
                              radius |-> 120, type |-> type, ttl |-> 8000]>>]

InitPowerUps ==
    /\ mode = "playing" /\ score = 0
    /\ rendered = [mode |-> "playing", score |-> 0]
    /\ \E theme \in InitThemes, s \in Sessions, type \in SeededTypes :
         refs = WithPowerUp(SessionRefs(theme, s), type)
    /\ container = NormalView
    /\ last = NoOp
    /\ destroyed = <<>>
    /\ nextId = 1
    /\ nTicks = 0
    /\ nInputs = 0

SpecPowerUps == InitPowerUps /\ [][Next]_vars

\* Scenes of a session with effects running: the effect durations are only
\* ever set by a power-up, so they are put there by hand too, with the
\* values a pickup and the frames after it leave.  The session is the quiet
\* one (no key held, rocket at the centre), enemies come at the rocket from
\* its right (and its left) and reach it in the next frame.
NoEffects ==
    [shield |-> 0, slowMo |-> 0, magnet |-> 0, homing |-> 0, spread |-> 0, laser |-> 0]
AllEffects == [k \in DOMAIN NoEffects |-> 3000]

WithEffects(r, d) ==
    [r EXCEPT !.hasShield = d.shield > 0, !.shieldTimer = d.shield,
              !.slowMo = d.slowMo, !.magnet = d.magnet, !.homing = d.homing,
              !.spread = d.spread, !.laser = d.laser]

Chaser(r, id) ==
    [id |-> id, kind |-> "ufo", hp |-> 20, w |-> 520, h |-> 260, y |-> r.rocket.y,
     x |-> IF id = 1 THEN r.rocket.x + RocketWidth + 20 ELSE r.rocket.x - 520 - 20,
     vx |-> IF id = 1 THEN -2300 ELSE 2300, vy |-> 0]

WithChasers(r, n) == [r EXCEPT !.enemies = [id \in 1 .. n |-> Chaser(r, id)]]

SceneBase == SessionRefs(0, CHOOSE s \in Sessions : s.keys = {})

\* Every effect with 14 ms left, a bullet on its way up from the nose and a
\* score orb drifting 100 px right of the rocket.
Expiring(r) ==
    [WithEffects(r, [k \in DOMAIN NoEffects |-> 14]) EXCEPT
        !.bullets = <<[makeBullet([x |-> RocketCenter(r).x, y |-> r.rocket.y - 500],
                                  [x |-> 0, y |-> -1000])
                         EXCEPT !.homing = FALSE]>>,
        !.scoreOrbs = <<[x |-> RocketCenter(r).x + 1000, y |-> RocketCenter(r).y,
                         vx |-> 600, vy |-> 0, value |-> 1]>>]

\* Slow-mo with 47 ms left (two slowed frames, then full speed), the other
\* effects with 14 ms left, and one thing
\* of every kind that update() integrates: the "d" key held, an asteroid
\* drifting in the top left corner, a bullet, a beam, a score orb, a
\* power-up out of reach with 8 s to live and a particle.
Slowed(r) ==
    LET e == Expiring(r)
        c == RocketCenter(r)
    IN  [e EXCEPT
           !.slowMo = 47,
           !.pressedKeys = {"d"},
           !.enemies = <<[id |-> 1, kind |-> "asteroid", hp |-> 20, w |-> 300, h |-> 300,
                          x |-> 200, y |-> 200, vx |-> 500, vy |-> 700]>>,
           !.beams = <<[ox |-> c.x, oy |-> c.y, dx |-> 1000, dy |-> 0,
                        width |-> BeamWidth, ttl |-> BeamTtl]>>,
           !.powerUps = <<[x |-> 300, y |-> 3300, radius |-> 120,
                           type |-> "magnet", ttl |-> 8000]>>,
           !.particles = <<[x |-> c.x, y |-> c.y + 400, vx |-> 300, vy |-> 1200,
                            life |-> 0, maxLife |-> 350]>>]

Scenes ==
    {WithPowerUp(WithEffects(SceneBase, AllEffects), type) : type \in PowerUpTypes}
    \cup {SceneBase, Expiring(SceneBase), Slowed(SceneBase),
          WithEffects(SceneBase, [NoEffects EXCEPT !.spread = 3000]),
          WithEffects(SceneBase, [NoEffects EXCEPT !.shield = 14])}
    \cup {WithChasers(WithEffects(SceneBase, [NoEffects EXCEPT !.shield = d]), n) :
            d \in {0, 3000}, n \in {1, 2}}

InitScenes ==
    /\ mode = "playing" /\ score = 0
    /\ rendered = [mode |-> "playing", score |-> 0]
    /\ refs \in Scenes
    /\ container = NormalView
    /\ last = NoOp
    /\ destroyed = <<>>
    /\ nextId = 3
    /\ nTicks = 0
    /\ nInputs = 0

\* The component in a session whose theme is about to change.
InitThemed ==
    /\ mode = "playing" /\ score = 0
    /\ rendered = [mode |-> "playing", score |-> 0]
    /\ \E theme \in InitThemes, s \in ThemeSessions : refs = SessionRefs(theme, s)
    /\ container = NormalView
    /\ last = NoOp
    /\ destroyed = <<>>
    /\ nextId = 1
    /\ nTicks = 0
    /\ nInputs = 0

SpecThemes == InitThemed /\ [][Next]_vars

\* A session with a boss wave under way.  The boss is the mothership of
\* lines 734-745, `age` ms after its spawn: it has come down 40 px/s and the
\* boss timer, reset at the spawn, reads age.
TallView == [w |-> MinCanvas, h |-> 20000]
BossUfo(age, vp) ==
    [id |-> 1, kind |-> "bossUfo", hp |-> 500, w |-> 2400, h |-> 1200,
     x |-> Quot(vp.w, 2) - 1200, y |-> -1000 + Quot(400 * age, 1000),
     vx |-> 0, vy |-> 400]
WithBoss(r, age, vp) ==
    [r EXCEPT !.enemies = <<BossUfo(age, vp)>>, !.bossTimer = age]

\* The boss 1.5 s old with the spawn accumulator about to reach 1.8 x the
\* interval; the boss about to reach the rocket; the boss 44.99 s old, still
\* on screen in a window 2000 px high, late in a session; no boss and the
\* boss timer at 44.99 s.
BossScenes ==
    { [refs |-> [WithBoss(SceneBase, 1500, NormalView) EXCEPT !.spawnAccumulator = 1600],
       container |-> NormalView],
      [refs |-> WithBoss(SceneBase, 3625, NormalView), container |-> NormalView],
      [refs |-> [WithBoss(SceneBase, 44990, TallView) EXCEPT
                    !.spawnInterval = SpawnIntervalMin],
       container |-> TallView],
      [refs |-> [SceneBase EXCEPT !.bossTimer = 44990], container |-> NormalView] }

\* A session around a meteor shower: `ticks` frames of 33 ms into it (the
\* frame that started it set the event timer and the meteor accumulator
\* to 0 and took its dt off the 8 s), or 10 ms before it is due.
InShower(r, ticks) ==
    [r EXCEPT !.eventActive = "meteor",
              !.eventTimeLeft = EventLength - MaxDt * ticks,
              !.eventTimer = MaxDt * (ticks - 1),
              !.meteorSpawnAcc = (MaxDt * ticks) % MeteorInterval]
HazardScenes ==
    { [refs |-> InShower(SceneBase, 5), container |-> NormalView],
      [refs |-> InShower(SceneBase, 242), container |-> NormalView],
      [refs |-> [SceneBase EXCEPT !.eventTimer = 24990], container |-> NormalView] }

InitBoss ==
    /\ mode = "playing" /\ score = 0
    /\ rendered = [mode |-> "playing", score |-> 0]
    /\ \E s \in BossScenes \cup HazardScenes : refs = s.refs /\ container = s.container
    /\ last = NoOp
    /\ destroyed = <<>>
    /\ nextId = 2
    /\ nTicks = 0
    /\ nInputs = 0

\* Only the keys that fire.
FireKeyDown == KeyDownOf({"k", " "})

NextPlay == Tick \/ Render \/ FireKeyDown \/ MouseDown

SpecScenes == InitScenes /\ [][NextPlay]_vars

\* The component with frames at any distance and the keys and clicks that
\* start, restart and fire.
StartKeyDown == KeyDownOf({"enter", "r", " "})
NextGaps == TickAnyGap \/ Render \/ StartKeyDown \/ MouseDown
SpecGaps == Init /\ [][NextGaps]_vars

SpecBoss == InitBoss /\ [][NextPlay]_vars

\* A session with score orbs around the ship: one 28 px right of the ship
\* centre coming in at 100 px/s (inside the 26 px after one frame), one
\* 150 px to the left drifting away.
OrbField(r) ==
    LET c == RocketCenter(r)
    IN  [r EXCEPT !.scoreOrbs = <<[x |-> c.x + 280, y |-> c.y, vx |-> -1000, vy |-> 0,
                                   value |-> 1],
                                  [x |-> c.x - 1500, y |-> c.y + 900, vx |-> -300,
                                   vy |-> 200, value |-> 1]>>]

\* An enemy with `hp` left that reaches the ship in the next frame, and a
\* bullet that reaches the enemy in that frame.
UnderFire(r, hp) ==
    [r EXCEPT !.enemies = <<[Chaser(r, 1) EXCEPT !.hp = hp]>>,
              !.bullets = <<makeBullet([x |-> r.rocket.x + RocketWidth + 160,
                                        y |-> r.rocket.y + 440],
                                       [x |-> 0, y |-> -1000])>>]

\* Two bullets near the top edge, of which the next frame takes one out of
\* the viewport, and two enemies moving off to the right, of which it takes
\* one past the 80 px margin.
Leaving(r, vp) ==
    [r EXCEPT !.bullets = <<makeBullet([x |-> 600, y |-> 200], [x |-> 0, y |-> -1000]),
                            makeBullet([x |-> 900, y |-> 340], [x |-> 0, y |-> -1000])>>,
              !.enemies = <<[id |-> 1, kind |-> "ufo", hp |-> 20, w |-> 520, h |-> 260,
                             x |-> vp.w + 750, y |-> 600, vx |-> 2300, vy |-> 0],
                            [id |-> 2, kind |-> "ufo", hp |-> 20, w |-> 520, h |-> 260,
                             x |-> vp.w + 700, y |-> 1200, vx |-> 2300, vy |-> 0]>>]

\* A beam going up from the nose with `ttl` ms left, an asteroid coming
\* down it and an asteroid well to its left.
Lasered(r, ttl) ==
    LET c == RocketCenter(r)
    IN  [r EXCEPT !.beams = <<[ox |-> c.x, oy |-> c.y - Quot(RocketWidth * 52, 100),
                               dx |-> 0, dy |-> -1000, width |-> BeamWidth,
                               ttl |-> ttl]>>,
                  !.enemies = <<[id |-> 1, kind |-> "asteroid", hp |-> 20, w |-> 400,
                                 h |-> 400, x |-> c.x - 200, y |-> 600,
                                 vx |-> 0, vy |-> 900],
                                [id |-> 2, kind |-> "asteroid", hp |-> 20, w |-> 400,
                                 h |-> 400, x |-> 400, y |-> 600,
                                 vx |-> 0, vy |-> 900]>>]

\* The orbs alone; with an enemy that reaches the unshielded ship in the
\* next frame; with the magnet on; with the shield up and that enemy.
\* An enemy under fire with one hit left (at multiplier 1 and 4.9) and with
\* two hits left.  Bullets and enemies on their way out.  A beam just fired
\* and a beam in its last frame.  The difficulty timer 10 ms short of 5 s
\* with the spawn interval at 900 ms, at its floor, and one step above the
\* floor with an enemy about to end the game.  The pointer resting on the centre of the ship, without
\* and with the laser.
FieldScenes ==
    { OrbField(SceneBase), WithChasers(OrbField(SceneBase), 1),
      WithEffects(OrbField(SceneBase), [NoEffects EXCEPT !.magnet = 3000]),
      WithChasers(WithEffects(OrbField(SceneBase), [NoEffects EXCEPT !.shield = 3000]), 1),
      UnderFire(SceneBase, 10), UnderFire(SceneBase, 20),
      UnderFire([SceneBase EXCEPT !.multiplier = 49000], 10),
      Leaving(SceneBase, NormalView),
      Lasered(SceneBase, BeamTtl), Lasered(SceneBase, BeamTtl - 3 * MaxDt),
      [SceneBase EXCEPT !.difficultyTimer = 4990],
      [SceneBase EXCEPT !.difficultyTimer = 4990, !.spawnInterval = SpawnIntervalMin],
      WithChasers([SceneBase EXCEPT !.difficultyTimer = 4990,
                                    !.spawnInterval = SpawnIntervalMin + 40], 1) }
    \cup { [WithEffects(SceneBase, d) EXCEPT
              !.aimPosition = [known |-> TRUE, x |-> RocketCenter(SceneBase).x,
                               y |-> RocketCenter(SceneBase).y]] :
             d \in {NoEffects, [NoEffects EXCEPT !.laser = 3000]} }

InitField ==
    /\ mode = "playing" /\ score = 0
    /\ rendered = [mode |-> "playing", score |-> 0]
    /\ refs \in FieldScenes
    /\ container = NormalView
    /\ last = NoOp
    /\ destroyed = <<>>
    /\ nextId = 3
    /\ nTicks = 0
    /\ nInputs = 0

SpecField == InitField /\ [][NextPlay]_vars

\* ------------------------------------------------------------------------
\* Properties
\* ------------------------------------------------------------------------
StartCommands == {"start", "restart"}

\* The seven entity populations.
Populations(r) ==
    <<r.bullets, r.enemies, r.particles, r.powerUps, r.scoreOrbs, r.wells, r.beams>>

\* The timers and the timed state.
Timers(r) ==
    <<r.spawnAccumulator, r.spawnInterval, r.difficultyTimer, r.bossTimer,
      r.eventTimer, r.eventActive, r.eventTimeLeft, r.meteorSpawnAcc,
      r.multiplier, r.comboTimer, r.shieldTimer, r.hasShield, r.slowMo,
      r.magnet, r.homing, r.spread, r.laser, r.screenShake>>

ThemeState(r) ==
    <<r.currentThemeIdx, r.nextThemeIdx, r.themeBlend, r.themeTimer, r.themeTransitioning>>

\* C1: the mode changes only from menu to playing by a start command, from
\* playing to gameover by a tick with a fatal ship-enemy collision, and from
\* gameover to playing by a restart command; a start or restart command is
\* never carried out while the mode is playing.
ModeTransitions ==
    [][ /\ mode' # mode =>
             \/ mode = "menu" /\ mode' = "playing" /\ last'.cmd = "start"
             \/ mode = "playing" /\ mode' = "gameover"
                  /\ last'.op = "tick" /\ last'.ran /\ last'.fatal
             \/ mode = "gameover" /\ mode' = "playing" /\ last'.cmd = "restart"
        /\ last'.cmd \in StartCommands => mode # "playing" ]_vars

\* A session ended by a collision and was restarted.
RestartedAfterGameOver == last.cmd = "restart" /\ mode = "playing" /\ nTicks > 0

\* C2: right after a start or restart command the mode is playing, the
\* score is 0 and the seven populations are empty.
StartEmptiesPopulations ==
    last.cmd \in StartCommands =>
        /\ mode = "playing" /\ score = 0
        /\ \A i \in 1 .. 7 : Populations(refs)[i] = <<>>

\* C3: right after a start or restart command every timer and timed state
\* has its initial value.
StartResetsTimers ==
    last.cmd \in StartCommands =>
        /\ refs.spawnAccumulator = 0 /\ refs.spawnInterval = SpawnIntervalStart
        /\ refs.difficultyTimer = 0 /\ refs.bossTimer = 0
        /\ refs.eventTimer = 0 /\ refs.eventActive = "none"
        /\ refs.multiplier = ComboFloor /\ refs.comboTimer = 0
        /\ refs.shieldTimer = 0 /\ refs.slowMo = 0 /\ refs.magnet = 0
        /\ refs.homing = 0 /\ refs.spread = 0 /\ refs.laser = 0
        /\ ~refs.hasShield /\ refs.screenShake = 0

PausedIsFrozen ==
    [][ /\ (refs.pause /\ (last'.op = "tick" \/ last'.cmd = "fire")) =>
             /\ refs'.rocket = refs.rocket
             /\ Populations(refs') = Populations(refs)
             /\ Timers(refs') = Timers(refs)
             /\ score' = score
        /\ last'.cmd = "pause" => mode' = mode ]_vars

ScoreNeverDecreases == [][score' >= score]_vars

\* C7 as amended: a start or restart command sets the score to 0; no other
\* step lowers the score, as set or as rendered.
ScoreDecreasesOnlyByStart ==
    [][ IF last'.cmd \in StartCommands THEN score' = 0
        ELSE score' >= score /\ rendered'.score >= rendered.score ]_vars

\* A restart command has set a score above 0 back to 0.
ScoreResetByRestart ==
    last.cmd = "restart" /\ score = 0 /\ destroyed # <<>>

\* C8: the combo multiplier is at least 1 and at most 5.
MultiplierInRange == ComboFloor <= refs.multiplier /\ refs.multiplier <= ComboCap

\* A kill at multiplier 4.9 has left it at 5.
MultiplierCapped == destroyed # <<>> /\ refs.multiplier = ComboCap

\* C9: at the end of a tick every enemy in the population has hp > 0.
EnemiesHaveHp ==
    last.op = "tick" => \A i \in 1 .. Len(refs.enemies) : refs.enemies[i].hp > 0

\* How often x occurs in seq.
Times(seq, x) == Cardinality({i \in 1 .. Len(seq) : seq[i] = x})

\* C10: an enemy whose hp is no longer above 0 has left the population and
\* has been given to onEnemyDestroyed exactly once; an enemy is never given
\* to it twice.
DestroyedOnceWhenHpGone ==
    last.op = "tick" =>
        /\ \A i \in 1 .. Len(refs.enemies) :
             refs.enemies[i].hp <= 0 => Times(destroyed, refs.enemies[i].id) = 1
        /\ \A id \in 1 .. nextId : Times(destroyed, id) <= 1
        /\ \A i \in 1 .. Len(refs.enemies) : Times(destroyed, refs.enemies[i].id) = 0

\* ------------------------------------------------------------------------
\* Properties of the steps of update, read from the history of the last tick
\* ------------------------------------------------------------------------
\* The last operation was a tick whose update ran through its steps.
Ran == last.op = "tick" /\ last.ran

\* The ids update gave to onEnemyDestroyed between history points a and b.
KilledBetween(a, b) ==
    {b.destroyed[i] : i \in Len(a.destroyed) + 1 .. Len(b.destroyed)}

\* The bullet impacts it takes to bring hp to 0 or below.
ImpactsToKill(hp) == Max(1, (hp + BulletDamage - 1) \div BulletDamage)

\* The hp the bullets took from enemy e of history point a, as seen at b: an
\* enemy still there lost the difference; a destroyed one lost one impact
\* after the other until its hp was gone.
HpTaken(e, a, b) ==
    IF e.id \in KilledBetween(a, b) THEN BulletDamage * ImpactsToKill(e.hp)
    ELSE LET j == CHOOSE j \in 1 .. Len(b.enemies) : b.enemies[j].id = e.id
         IN  e.hp - b.enemies[j].hp

RECURSIVE SumHpTaken(_, _, _)
SumHpTaken(i, a, b) ==
    IF i > Len(a.enemies) THEN 0
    ELSE HpTaken(a.enemies[i], a, b) + SumHpTaken(i + 1, a, b)

BulletHits(b, e) == rectCircleCollide(e.x, e.y, e.w, e.h, b.x, b.y, BulletRadius)

\* C11: in the bullet-enemy step every bullet that hits an enemy of the
\* population is removed and takes exactly 1 hp from exactly one enemy: the
\* bullets left hit none of the enemies left, every enemy left lost a whole
\* number of impacts, and the hp taken in all is 1 per bullet consumed.
BulletImpacts ==
    Ran =>
        LET a == last.at[13]
            b == last.at[14]
            consumed == Len(a.bullets) - Len(b.bullets)
        IN  /\ consumed >= 0
            /\ \A i \in 1 .. Len(b.bullets) :
                 /\ \E j \in 1 .. Len(a.bullets) : a.bullets[j] = b.bullets[i]
                 /\ \A k \in 1 .. Len(b.enemies) : ~BulletHits(b.bullets[i], b.enemies[k])
            /\ \A i \in 1 .. Len(a.enemies) :
                 /\ HpTaken(a.enemies[i], a, b) >= 0
                 /\ HpTaken(a.enemies[i], a, b) % BulletDamage = 0
            /\ SumHpTaken(1, a, b) = consumed * BulletDamage

\* Two bullets were consumed by one enemy in a tick, and destroyed it.
TwoImpactsOneKill ==
    /\ Ran
    /\ Len(last.at[13].bullets) - Len(last.at[14].bullets) = 2
    /\ Cardinality(KilledBetween(last.at[13], last.at[14])) = 1

\* The enemies of history point s whose rectangle overlaps the rocket's.
Touching(s) ==
    {i \in 1 .. Len(s.enemies) :
        rectRectOverlap(s.rocket.x, s.rocket.y, RocketWidth, RocketHeight,
                        s.enemies[i].x, s.enemies[i].y, s.enemies[i].w, s.enemies[i].h)}

\* C12: if at the ship-enemy step of a tick that ran an enemy overlaps the
\* rocket and there is no shield, the mode is gameover after that tick; and
\* the mode becomes gameover only by such a tick: an enemy overlapped the
\* rocket with no shield up (none at the step's entry, or the one there was
\* already spent on an earlier enemy of the same pass).
CollisionEndsGame ==
    [][ /\ (last'.op = "tick" /\ last'.ran
              /\ Touching(last'.at[21]) # {} /\ ~last'.at[21].hasShield)
           => mode' = "gameover"
        /\ (mode' = "gameover" /\ mode # "gameover")
           => /\ last'.op = "tick" /\ last'.ran
              /\ Touching(last'.at[21]) # {}
              /\ ~last'.at[21].hasShield \/ Cardinality(Touching(last'.at[21])) >= 2
      ]_vars

\* A tick found an enemy on the unshielded rocket and ended the game.
CollidedUnshielded ==
    Ran /\ Touching(last.at[21]) # {} /\ ~last.at[21].hasShield /\ mode = "gameover"

\* C13: a shield absorbs exactly one hit.  When an enemy overlaps the rocket
\* at the ship-enemy step while has-shield is true, the first such enemy is
\* destroyed (it alone, with the score award of a kill), has-shield is false
\* and the shield duration 0 afterwards; the mode stays as it was if that
\* enemy was the only one on the rocket, and a second enemy on the rocket
\* in the same pass ends the game.
ShieldAbsorbsOneHit ==
    [][ (last'.op = "tick" /\ last'.ran
           /\ last'.at[21].hasShield /\ Touching(last'.at[21]) # {})
        => LET s == last'.at[21]
               first == CHOOSE i \in Touching(s) : \A j \in Touching(s) : i <= j
           IN  /\ KilledBetween(s, [destroyed |-> destroyed']) = {s.enemies[first].id}
               /\ \A i \in 1 .. Len(refs'.enemies) :
                    refs'.enemies[i].id # s.enemies[first].id
               /\ score' = s.score + KillScore(s.multiplier)
               /\ ~refs'.hasShield /\ refs'.shieldTimer = 0
               /\ IF Cardinality(Touching(s)) = 1 THEN mode' = mode
                  ELSE mode' = "gameover"
      ]_vars

\* Two enemies were on the shielded rocket in one pass: the first was
\* destroyed for its score, the second ended the game.
ShieldSpentThenHit ==
    /\ Ran /\ last.at[21].hasShield
    /\ Cardinality(Touching(last.at[21])) = 2
    /\ mode = "gameover" /\ score > 0

\* The effect durations of history point s, by power-up type.
Durations(s) ==
    [shield |-> s.shieldTimer, slowmo |-> s.slowMo, magnet |-> s.magnet,
     homing |-> s.homing, spread |-> s.spread, laser |-> s.laser]

\* The types of the power-ups of history point s within pickup radius.
TypesInReach(s) ==
    {s.powerUps[i].type : i \in {j \in 1 .. Len(s.powerUps) : PowerUpInReach(s.powerUps[j], s)}}

\* C14: the power-up step of a tick sets the duration of every effect whose
\* power-up lies within pickup radius of the rocket centre to its listed
\* value, whatever it was (shield 8 s with has-shield true, slowmo 6 s,
\* magnet, homing and spread 10 s, laser 6 s), leaves every other duration
\* and has-shield alone, and leaves no power-up within pickup radius.
PickupSetsDuration ==
    Ran =>
        LET a == last.at[16]
            b == last.at[17]
            listed == [shield |-> 8000, slowmo |-> 6000, magnet |-> 10000,
                       homing |-> 10000, spread |-> 10000, laser |-> 6000]
        IN  /\ \A t \in PowerUpTypes :
                 Durations(b)[t] = IF t \in TypesInReach(a) THEN listed[t]
                                   ELSE Durations(a)[t]
            /\ b.hasShield = ("shield" \in TypesInReach(a) \/ a.hasShield)
            /\ TypesInReach([b EXCEPT !.rocket = a.rocket]) = {}
            /\ Len(b.powerUps) <= Len(a.powerUps)

\* A power-up was picked up while its effect was running.
PickedUpWhileRunning ==
    /\ Ran
    /\ \E t \in TypesInReach(last.at[16]) :
         /\ Durations(last.at[16])[t] > 0
         /\ Durations(last.at[17])[t] > Durations(last.at[16])[t]

RanNext == last'.op = "tick" /\ last'.ran

\* C16: theme auto-transition.  A tick that takes the theme timer past 35 s
\* with no transition in progress sets themeTransitioning and leaves the
\* current and the next theme index alone; a tick inside the transition adds
\* its dt to the blend and leaves both indices alone; the tick that takes
\* the blend to 1 (4 s of ticks) ends the transition with the current index
\* equal to the next index held before it.  Together: the index committed
\* is the next index from before the transition began.
ThemeAutoTransition ==
    [][RanNext =>
          LET dt == last'.dt
              begins == ~refs.themeTransitioning /\ refs.themeTimer + dt > ThemeDuration
              fades == refs.themeTransitioning /\ refs.themeBlend + dt < BlendFull
              commits == refs.themeTransitioning /\ refs.themeBlend + dt >= BlendFull
          IN  /\ begins => /\ refs'.themeTransitioning
                           /\ refs'.currentThemeIdx = refs.currentThemeIdx
                           /\ refs'.nextThemeIdx = refs.nextThemeIdx
              /\ fades => /\ refs'.themeTransitioning
                          /\ refs'.themeBlend = refs.themeBlend + dt
                          /\ refs'.currentThemeIdx = refs.currentThemeIdx
                          /\ refs'.nextThemeIdx = refs.nextThemeIdx
              /\ commits => /\ ~refs'.themeTransitioning
                            /\ refs'.themeBlend = 0
                            /\ refs'.currentThemeIdx = refs.nextThemeIdx]_vars

\* C17: a theme stays the only active theme for a full 35 s.  The theme
\* timer is the tick time since the current theme became current: 0 right
\* after a commit or a manual switch, dt more after every other tick outside
\* a transition; and an automatic transition begins only on a tick that
\* takes this time past 35 s.
ThemeHoldsFullDuration ==
    [][/\ RanNext =>
            LET dt == last'.dt
            IN  /\ (refs.themeTransitioning /\ ~refs'.themeTransitioning)
                      => refs'.themeTimer = 0
                /\ (~refs.themeTransitioning /\ ~refs'.themeTransitioning)
                      => refs'.themeTimer = refs.themeTimer + dt
                /\ (~refs.themeTransitioning /\ refs'.themeTransitioning)
                      => refs.themeTimer + dt > ThemeDuration
       /\ last'.cmd \in {"mapPrev", "mapNext"} => refs'.themeTimer = 0]_vars


MapCommands == {"mapPrev", "mapNext"}

\* C18: a manual map switch, in any mode and paused or not, sets the current
\* theme index to (current - 1) mod 5 for Q and (current + 1) mod 5 for E,
\* leaves no transition in progress (flag false, blend 0, theme timer 0) and
\* changes neither the mode, the score, the pause flag, the ship nor any
\* entity population.
MapSwitch ==
    [][last'.cmd \in MapCommands =>
          /\ refs'.currentThemeIdx =
                (refs.currentThemeIdx
                    + (IF last'.cmd = "mapNext" THEN 1 ELSE NumThemes - 1)) % NumThemes
          /\ ~refs'.themeTransitioning
          /\ refs'.themeBlend = 0
          /\ refs'.themeTimer = 0
          /\ mode' = mode /\ score' = score /\ rendered' = rendered
          /\ refs'.pause = refs.pause
          /\ refs'.rocket = refs.rocket
          /\ Populations(refs') = Populations(refs)]_vars

\* Q pressed while paused in the middle of a crossfade, wrapping from theme
\* 0 to theme 4, with enemies on the screen.
MapSwitchedInCrossfade ==
    /\ last.cmd = "mapPrev" /\ last.fading
    /\ refs.pause
    /\ refs.currentThemeIdx = NumThemes - 1
    /\ refs.enemies # <<>>


FireAddsMuzzleFlash ==
    [][last'.cmd = "fire" => Len(refs'.particles) > Len(refs.particles)]_vars


\* C21: the combo multiplier decays on a hit.  After a tick whose ship-enemy
\* step found an enemy on the shielded rocket (the hit the shield absorbs),
\* the multiplier is not higher than it was when that step began.
HitLowersCombo ==
    [][(last'.op = "tick" /\ last'.ran
          /\ last'.at[21].hasShield /\ Touching(last'.at[21]) # {})
       => refs'.multiplier <= last'.at[21].multiplier]_vars


\* The runs from the menu in which the animation frames keep coming
\* (requestAnimationFrame re-arms the loop on every frame).
InitMenu == Init /\ mode = "menu"

\* The steps of the first frames after the menu: no enemy has reached the
\* rocket yet, so no frame sets the mode and React has nothing to commit
\* after a frame (startGame's update is committed with the input event).
NextMenu == Tick \/ Resize \/ KeyDown \/ KeyUp \/ MouseMove \/ MouseDown

SpecLoop == InitMenu /\ [][NextMenu]_vars /\ WF_vars(Tick)

\* No step adds a power-up to the population.
PowerUpsOnlyLeave == [][Len(refs'.powerUps) <= Len(refs.powerUps)]_vars

\* No step adds a power-up, and none is there at mount or after a start
\* from the menu: the population stays empty and no effect ever runs.
PowerUpsNeverAppear ==
    /\ refs.powerUps = <<>>
    /\ \A type \in PowerUpTypes : Durations(refs)[type] = 0
    /\ ~refs.hasShield

GameOverFreezes ==
    [][(mode = "gameover" /\ last'.op = "tick")
       => /\ refs'.rocket = refs.rocket
          /\ Populations(refs') = Populations(refs)
          /\ Timers(refs') = Timers(refs)
          /\ ThemeState(refs') = ThemeState(refs)
          /\ score' = score /\ mode' = mode
          /\ destroyed' = destroyed]_vars


\* The bosses of a population.
Bosses(es) == {i \in 1 .. Len(es) : IsBoss(es[i])}

\* C24: on a tick with a boss alive at the spawn step the spawn accumulator
\* spawns no regular enemy and is still drained, in steps of 1.8 x the spawn
\* interval; with or without a boss the accumulator is, after the tick,
\* below the step used on that tick, and what was taken off it is a whole
\* number of steps (one regular enemy per step when no boss is alive).
SpawnThrottled ==
    [][RanNext =>
          LET boss == Bosses(refs.enemies) # {}
              step == IF boss THEN (refs'.spawnInterval * 18) \div 10
                      ELSE refs'.spawnInterval
              drained == refs.spawnAccumulator + last'.dt - refs'.spawnAccumulator
          IN  /\ boss => last'.spawned = 0
              /\ refs'.spawnAccumulator >= 0 /\ refs'.spawnAccumulator < step
              /\ drained % step = 0
              /\ ~boss => last'.spawned = drained \div step]_vars

\* A tick with a boss alive took a step of 1.8 x the interval off the
\* accumulator and spawned nothing.
DrainedUnderBoss ==
    /\ Ran /\ last.spawned = 0
    /\ Bosses(refs.enemies) # {}
    /\ refs.bossTimer > last.dt
    /\ refs.spawnAccumulator = 1600 + last.dt - (refs.spawnInterval * 18) \div 10


\* A tick that spawned a boss: the boss step appended one to the enemies.
BossSpawned ==
    /\ RanNext
    /\ \E i \in Bosses(refs'.enemies) :
         \A j \in 1 .. Len(refs.enemies) : refs.enemies[j].id # refs'.enemies[i].id

\* C25: a boss is spawned only on a tick with no boss alive and more than
\* 45 s of tick time since the previous boss spawn or, for the first boss of
\* a session, since the start command.  The boss timer is that time: 0 after
\* a start or restart command and after a tick that spawned a boss, dt more
\* after any other tick; and a boss is spawned (and the timer reset) only
\* with no boss alive and the timer, with this tick's dt, past 45 s.
BossEvery45s ==
    [][/\ last'.cmd \in StartCommands => refs'.bossTimer = 0
       /\ RanNext =>
            IF BossSpawned \/ refs'.bossTimer # refs.bossTimer + last'.dt
            THEN /\ Bosses(refs.enemies) = {}
                 /\ refs.bossTimer + last'.dt > BossPeriod
                 /\ refs'.bossTimer = 0
            ELSE TRUE]_vars

\* The same without the start commands: ticks only.
BossTimerOnTicks ==
    [][RanNext =>
          IF BossSpawned \/ refs'.bossTimer # refs.bossTimer + last'.dt
          THEN /\ Bosses(refs.enemies) = {}
               /\ refs.bossTimer + last'.dt > BossPeriod
               /\ refs'.bossTimer = 0
          ELSE TRUE]_vars


\* C26: the enemy population never holds more than one boss.
AtMostOneBoss == Cardinality(Bosses(refs.enemies)) <= 1

\* A tick ran with the boss alive and the boss timer past 45 s: the one boss
\* is still the only one.
BossOutlivedPeriod ==
    /\ Ran
    /\ Cardinality(Bosses(refs.enemies)) = 1
    /\ refs.bossTimer > BossPeriod


\* The hazard meteors a tick added: the enemy ids it handed out, less the
\* regular spawns and the boss.
MeteorsSpawned ==
    nextId' - nextId - last'.spawned
        - (IF refs'.bossTimer # refs.bossTimer + last'.dt THEN 1 ELSE 0)

\* C27: a meteor shower starts only after 25 s of tick time with no event
\* active, counted from the end of the previous shower or from the start of
\* the session; it lasts 8 s of tick time; hazard meteors are spawned only
\* on ticks on which the shower is active.  The event timer is that idle
\* time: 0 after a start or restart command and after the tick that ends a
\* shower, dt more after a tick without a shower; a shower starts only on a
\* tick that takes it past 25 s, with 8 s to run, of which every tick of
\* the shower takes its dt, the last being the one that takes it to 0.
ShowerAfterIdle ==
    [][/\ last'.cmd \in StartCommands => refs'.eventTimer = 0
       /\ RanNext =>
            LET dt == last'.dt
                was == refs.eventActive = "meteor"
                is == refs'.eventActive = "meteor"
                left == IF was THEN refs.eventTimeLeft ELSE EventLength
            IN  /\ (~was /\ is) => refs.eventTimer + dt > EventIdle
                /\ (~was /\ ~is) => refs'.eventTimer = refs.eventTimer + dt
                /\ is => refs'.eventTimeLeft = left - dt /\ left - dt > 0
                /\ (was /\ ~is) => refs.eventTimeLeft - dt <= 0 /\ refs'.eventTimer = 0
                /\ MeteorsSpawned >= 0
                /\ MeteorsSpawned > 0 => was \/ is]_vars

\* The same without the two resets of the event timer.
ShowerOnTicks ==
    [][RanNext =>
          LET dt == last'.dt
              was == refs.eventActive = "meteor"
              is == refs'.eventActive = "meteor"
              left == IF was THEN refs.eventTimeLeft ELSE EventLength
          IN  /\ (~was /\ is) => refs.eventTimer + dt > EventIdle
              /\ (~was /\ ~is) => refs'.eventTimer = refs.eventTimer + dt
              /\ is => refs'.eventTimeLeft = left - dt /\ left - dt > 0
              /\ (was /\ ~is) => refs.eventTimeLeft - dt <= 0
              /\ MeteorsSpawned >= 0
              /\ MeteorsSpawned > 0 => was \/ is]_vars


\* The number of homing bullets.
HomingBullets(bs) == Cardinality({i \in 1 .. Len(bs) : bs[i].homing})

\* The velocities of the score orbs.
OrbVelocities(os) == {<<os[i].vx, os[i].vy>> : i \in 1 .. Len(os)}

\* C28: the effect durations are clamped.  Every duration stays above
\* -maxDt; a tick never lowers a duration that is <= 0; and an effect acts
\* only while its duration is > 0: time is slowed (effective dt 0.6 dt) only
\* with slow-mo > 0, a bullet turns homing only with homing > 0, an orb is
\* steered only with magnet > 0, a fire command gives a beam only with
\* laser > 0 and three bullets only with spread > 0.
EffectsClamped ==
    [][/\ \A type \in PowerUpTypes : Durations(refs')[type] > -MaxDt
       /\ RanNext =>
            /\ \A type \in PowerUpTypes :
                 Durations(refs)[type] <= 0
                    => Durations(refs')[type] >= Durations(refs)[type]
            /\ last'.eff = last'.dt * (IF refs.slowMo > 0 THEN 6 ELSE 10)
            /\ refs.homing <= 0 => HomingBullets(refs'.bullets) <= HomingBullets(refs.bullets)
            /\ refs.magnet <= 0
                 => OrbVelocities(refs'.scoreOrbs)
                       \subseteq OrbVelocities(refs.scoreOrbs) \cup {<<600, 0>>}
       /\ last'.cmd = "fire" =>
            /\ Len(refs'.beams) > Len(refs.beams) => refs.laser > 0
            /\ Len(refs'.bullets) > Len(refs.bullets) + 1 => refs.spread > 0]_vars

\* The six durations ran out a tick ago, 19 ms below zero, and the tick
\* after left them there: full-speed time, the orb not steered.
StayedExpired ==
    /\ Ran /\ nTicks = 2
    /\ \A type \in PowerUpTypes : Durations(refs)[type] = 14 - MaxDt
    /\ last.eff = 10 * last.dt
    /\ OrbVelocities(refs.scoreOrbs) # {} /\ refs.bullets # <<>>


\* C29: the dt handed to update lies in [0, 33 ms] whatever the time since
\* the frame before, and the first frame after a start or restart command
\* gets dt = 0: the command clears the previous timestamp, no input sets
\* it, and a frame that finds it cleared hands 0 to update.
FrameDt ==
    [][/\ last'.cmd \in StartCommands => refs'.lastTime = "null"
       /\ (last'.op = "input" /\ last'.cmd \notin StartCommands)
             => refs'.lastTime = refs.lastTime
       /\ last'.op = "tick" =>
            /\ last'.dt >= 0 /\ last'.dt <= MaxDt
            /\ refs.lastTime = "null" => last'.dt = 0
            /\ refs'.lastTime = "set"]_vars

\* The first frame after a start or restart command ran update with dt = 0.
FirstFrameAfterRestart ==
    /\ Ran /\ last.dt = 0
    /\ nTicks = 2 /\ nInputs > 0
    /\ mode = "playing"


\* No power-up was collected or ran out in the step about to be taken.
PowerUpsKept ==
    /\ Len(refs'.powerUps) = Len(refs.powerUps)
    /\ \A i \in 1 .. Len(refs.powerUps) : refs.powerUps[i].ttl > last'.dt

\* C30: slow-mo scales motion only.  On a tick that finds slow-mo > 0 the
\* enemies, the bullets, the score orbs and the particles move by their
\* velocity x 0.6 dt; on a tick that finds it <= 0 they move by velocity x dt.
\* On either tick slow-mo itself and every other running effect lose dt
\* (the shield as the ship-collision step finds it: a hit it absorbs there
\* ends it), beams and power-ups lose dt of ttl, particles age by dt and
\* the ship moves by its speed x dt.
SlowMoScalesMotion ==
    [][RanNext =>
        LET dt == last'.dt
            eff == IF refs.slowMo > 0 THEN 6 * dt ELSE 10 * dt
        IN  /\ last'.eff = eff
            /\ refs.wells = <<>> =>
                 \A i \in 1 .. Len(refs.enemies), j \in 1 .. Len(refs'.enemies) :
                    refs.enemies[i].id = refs'.enemies[j].id
                       => /\ refs'.enemies[j].x
                               = refs.enemies[i].x + TravelE(refs.enemies[i].vx, eff)
                          /\ refs'.enemies[j].y
                               = refs.enemies[i].y + TravelE(refs.enemies[i].vy, eff)
            /\ Len(refs'.bullets) = Len(refs.bullets) =>
                 \A i \in 1 .. Len(refs.bullets) :
                    /\ refs'.bullets[i].x = refs.bullets[i].x
                          + TravelE(Scale(refs'.bullets[i].dx, BulletSpeed), eff)
                    /\ refs'.bullets[i].y = refs.bullets[i].y
                          + TravelE(Scale(refs'.bullets[i].dy, BulletSpeed), eff)
            /\ (Len(refs'.scoreOrbs) = Len(refs.scoreOrbs) /\ destroyed' = destroyed) =>
                 \A i \in 1 .. Len(refs.scoreOrbs) :
                    /\ refs'.scoreOrbs[i].x
                          = refs.scoreOrbs[i].x + TravelE(refs'.scoreOrbs[i].vx, eff)
                    /\ refs'.scoreOrbs[i].y
                          = refs.scoreOrbs[i].y + TravelE(refs'.scoreOrbs[i].vy, eff)
            /\ (\A i \in 1 .. Len(refs.particles) :
                   refs.particles[i].life + dt <= refs.particles[i].maxLife) =>
                 /\ Len(refs'.particles) >= Len(refs.particles)
                 /\ \A i \in 1 .. Len(refs.particles) :
                      /\ refs'.particles[i].life = refs.particles[i].life + dt
                      /\ refs'.particles[i].x
                            = refs.particles[i].x + TravelE(refs.particles[i].vx, eff)
                      /\ refs'.particles[i].y
                            = refs.particles[i].y + TravelE(refs.particles[i].vy, eff)
            /\ (\A i \in 1 .. Len(refs.beams) : refs.beams[i].ttl > dt) =>
                 /\ Len(refs'.beams) = Len(refs.beams)
                 /\ \A i \in 1 .. Len(refs.beams) :
                      refs'.beams[i].ttl = refs.beams[i].ttl - dt
            /\ PowerUpsKept =>
                 /\ \A i \in 1 .. Len(refs.powerUps) :
                      refs'.powerUps[i].ttl = refs.powerUps[i].ttl - dt
                 /\ \A type \in PowerUpTypes \ {"shield"} :
                      Durations(refs)[type] > 0
                         => Durations(refs')[type] = Durations(refs)[type] - dt
                 /\ refs.shieldTimer > 0
                         => last'.at[21].shieldTimer = refs.shieldTimer - dt
            /\ refs'.rocket = MoveRocket(refs, dt, last'.vp).rocket]_vars

\* The second slowed tick of a scene with one thing of every kind: slow-mo
\* was at 14 ms when it began and is at -19 ms now, the motion took 0.6 dt,
\* and the asteroid, the bullet, the beam, the orb, the power-up and the
\* seeded particle are all still there, the ship 2 x 33 ms to the right.
SlowedTickTaken ==
    /\ Ran /\ nTicks = 2 /\ last.dt = MaxDt
    /\ last.eff = 6 * last.dt
    /\ refs.slowMo = 14 - MaxDt
    /\ refs.enemies # <<>> /\ refs.bullets # <<>> /\ refs.beams # <<>>
    /\ refs.scoreOrbs # <<>> /\ refs.powerUps # <<>>
    /\ \E i \in 1 .. Len(refs.particles) : refs.particles[i].life = 2 * MaxDt
    /\ refs.powerUps[1].ttl = 8000 - 2 * MaxDt
    /\ refs.rocket.x > SceneBase.rocket.x

\* Sequence a is the beginning of sequence b.
StartsWith(b, a) == Len(a) <= Len(b) /\ \A i \in 1 .. Len(a) : b[i] = a[i]

\* C31: score orbs leave only by pickup.  No input, render or frame that
\* does not run update changes the orb population, a start or restart
\* command included.  In a frame that runs update the orbs are only added to
\* (at the end of the sequence) outside the orb step; the orb step keeps,
\* in order, every orb that after its integration is 26 px or more from the
\* ship centre, removes the others, and adds the sum of their values to
\* the score.
OrbsLeaveByPickup ==
    [][IF RanNext
       THEN LET a == last'.at[14]
                b == last'.at[16]
                c == RocketCenter(a)
                moved == [i \in 1 .. Len(a.scoreOrbs) |->
                            OrbMove(a.scoreOrbs[i], a, last'.eff)]
                near(o) == Dist2(o.x, o.y, c.x, c.y) < OrbPickup * OrbPickup
                far(o) == ~near(o)
            IN  /\ StartsWith(a.scoreOrbs, refs.scoreOrbs)
                /\ b.scoreOrbs = SelectSeq(moved, far)
                /\ b.score = a.score + SumValues(SelectSeq(moved, near))
                /\ StartsWith(refs'.scoreOrbs, b.scoreOrbs)
       ELSE refs'.scoreOrbs = refs.scoreOrbs]_vars

\* A restart command has just been given after a game that ended in its
\* first frame: that frame collected the orb coming in (one point, shown on
\* the game-over screen) and the orb drifting away is still there.
OrbSurvivedRestart ==
    /\ last.op = "input" /\ last.cmd \in StartCommands
    /\ nTicks = 1 /\ mode = "playing" /\ score = 0
    /\ Len(refs.scoreOrbs) = 1
    /\ refs.scoreOrbs[1].x < RocketCenter(refs).x - 1500
    /\ refs.enemies = <<>>

\* The score n kills in a row add from multiplier m: max(1, floor(m)) each,
\* with m raised by 0.2 up to 5 after each.
RECURSIVE Awards(_, _)
Awards(m, n) ==
    IF n = 0 THEN 0
    ELSE Max(1, m \div 10000) + Awards(Min(50000, m + 2000), n - 1)

\* What the destructions between history points a and b of one step did.
KillsAwarded(a, b) ==
    LET n == Len(b.destroyed) - Len(a.destroyed)
        centres == {[x |-> a.enemies[i].x + a.enemies[i].w \div 2,
                     y |-> a.enemies[i].y + a.enemies[i].h \div 2] :
                       i \in {j \in 1 .. Len(a.enemies) :
                                a.enemies[j].id \in KilledBetween(a, b)}}
        new == SubSeq(b.scoreOrbs, Len(a.scoreOrbs) + 1, Len(b.scoreOrbs))
    IN  /\ n >= 0
        /\ b.score = a.score + Awards(a.multiplier, n)
        /\ b.multiplier = Min(50000, a.multiplier + 2000 * n)
        /\ n > 0 => b.comboTimer = 0
        /\ StartsWith(b.scoreOrbs, a.scoreOrbs)
        /\ Len(new) >= 2 * n /\ Len(new) <= 4 * n
        /\ \A i \in 1 .. Len(new) :
              new[i].value = 1 /\ [x |-> new[i].x, y |-> new[i].y] \in centres

IsUnit(x, y) == x * x + y * y >= 980000 /\ x * x + y * y <= 1020000

\* C33: every bullet and every beam that a fire command adds has a unit
\* direction, and a frame with dt > 0 that keeps all the bullets leaves
\* none of them where it was.
FiredDirectionUnit ==
    [][/\ last'.cmd = "fire" =>
            /\ \A i \in Len(refs.bullets) + 1 .. Len(refs'.bullets) :
                  IsUnit(refs'.bullets[i].dx, refs'.bullets[i].dy)
            /\ \A i \in Len(refs.beams) + 1 .. Len(refs'.beams) :
                  IsUnit(refs'.beams[i].dx, refs'.beams[i].dy)
       /\ (RanNext /\ last'.dt > 0 /\ Len(refs'.bullets) = Len(refs.bullets)) =>
            \A i \in 1 .. Len(refs.bullets) :
               <<refs'.bullets[i].x, refs'.bullets[i].y>>
                  # <<refs.bullets[i].x, refs.bullets[i].y>>]_vars

\* C34: pruning.  The prune step of a tick keeps, in order, exactly the
\* bullets that touch the viewport padded by their radius and the enemies
\* that touch the viewport extended by 80 px on each side.  At the end of a
\* tick that did not end the game every bullet and every enemy is in its
\* region, the bullets are those the prune step kept, and an enemy it kept
\* is missing only if the ship step destroyed it.
PrunedToViewport ==
    [][(RanNext /\ ~last'.fatal) =>
         LET a == last'.at[14]
             b == last'.at[16]
             vp == last'.vp
             inB(o) == /\ o.x + 32 >= 0 /\ o.x - 32 <= vp.w
                       /\ o.y + 32 >= 0 /\ o.y - 32 <= vp.h
             inE(e) == /\ e.x + e.w >= -800 /\ e.x <= vp.w + 800
                       /\ e.y + e.h >= -800 /\ e.y <= vp.h + 800
         IN  /\ b.bullets = SelectSeq(a.bullets, inB)
             /\ b.enemies = SelectSeq(a.enemies, inE)
             /\ refs'.bullets = b.bullets
             /\ \A i \in 1 .. Len(refs'.bullets) : inB(refs'.bullets[i])
             /\ \A i \in 1 .. Len(refs'.enemies) : inE(refs'.enemies[i])
             /\ \A i \in 1 .. Len(b.enemies) :
                   \/ \E j \in 1 .. Len(refs'.enemies) : refs'.enemies[j] = b.enemies[i]
                   \/ b.enemies[i].id \in KilledBetween(b, [destroyed |-> destroyed'])]_vars

\* A tick has just dropped one of two bullets at the top edge and one of two
\* enemies at the right margin, and kept the other of each.
PrunedOneOfEach ==
    /\ Ran /\ ~last.fatal
    /\ Len(last.at[14].bullets) = 2 /\ Len(refs.bullets) = 1
    /\ refs.bullets[1].y - 32 < 0
    /\ \E i \in 1 .. Len(last.at[14].enemies) : last.at[14].enemies[i].id = 1
    /\ \A i \in 1 .. Len(refs.enemies) : refs.enemies[i].id # 1
    /\ \E i \in 1 .. Len(refs.enemies) :
          refs.enemies[i].id = 2 /\ refs.enemies[i].x > last.vp.w
    /\ destroyed = <<>>

\* C35: beams.  Every beam in the population has ttl > 0 after any step.
\* The beam step of a tick takes dt off the ttl of every beam, keeps in
\* order those left with ttl > 0, and takes 0.8 hp off every enemy for
\* every beam, kept or not, whose capsule holds the enemy's centre.
BeamsLiveAndBurn ==
    [][/\ \A i \in 1 .. Len(refs'.beams) : refs'.beams[i].ttl > 0
       /\ RanNext =>
            LET s == last'.at[13]
                aged == [i \in 1 .. Len(refs.beams) |->
                           [refs.beams[i] EXCEPT !.ttl = @ - last'.dt]]
                alive(b) == b.ttl > 0
            IN  /\ s.beams = SelectSeq(aged, alive)
                /\ refs'.beams = s.beams
                /\ \A i \in 1 .. Len(refs.enemies), j \in 1 .. Len(s.enemies) :
                      refs.enemies[i].id = s.enemies[j].id =>
                        s.enemies[j].hp = refs.enemies[i].hp
                           - 8 * Cardinality({k \in 1 .. Len(refs.beams) :
                                                 InBeam(refs.beams[k], s.enemies[j])})]_vars

\* A tick has just dropped a beam whose ttl came to -12 ms, and the enemy on
\* its line lost 0.8 hp to it in that tick while the other enemy lost none.
BeamBurnedAsItExpired ==
    /\ Ran /\ nTicks = 1 /\ last.dt = MaxDt
    /\ refs.beams = <<>> /\ last.at[13].beams = <<>>
    /\ \E i \in 1 .. Len(refs.enemies) : refs.enemies[i].id = 1 /\ refs.enemies[i].hp = 12
    /\ \E i \in 1 .. Len(refs.enemies) : refs.enemies[i].id = 2 /\ refs.enemies[i].hp = 20

\* C36: an enemy that a bullet destroyed in a tick is not among the enemies
\* the ship step of that tick tests, which are exactly those the prune step
\* kept of the survivors of the bullet step; and the mode changes in a tick
\* only if one of the enemies the ship step found overlaps the ship.
BulletKillNotFatal ==
    [][RanNext =>
         LET killed == KilledBetween(last'.at[13], last'.at[14])
             tested == last'.at[21].enemies
         IN  /\ \A i \in 1 .. Len(tested) : tested[i].id \notin killed
             /\ tested = last'.at[16].enemies
             /\ \A i \in 1 .. Len(tested) :
                   \E j \in 1 .. Len(last'.at[14].enemies) :
                      last'.at[14].enemies[j] = tested[i]
             /\ Touching(last'.at[21]) = {} => mode' = mode]_vars

\* A tick has just moved an enemy onto the unshielded ship, a bullet
\* destroyed it in the bullet step, and the game goes on.
ShotOffTheShip ==
    /\ Ran /\ mode = "playing" /\ ~last.fatal
    /\ ~last.at[21].hasShield
    /\ \E i \in Touching(last.at[13]) :
          last.at[13].enemies[i].id \in KilledBetween(last.at[13], last.at[14])
    /\ Touching(last.at[21]) = {}

\* C37: a regular enemy spawned by a tick has the speed of its draw (90 or
\* 230 px/s) times the enemy-speed multiplier of the theme at the current
\* index as the spawn step finds it, in a crossfade as well.
SpawnUsesCurrentTheme ==
    [][(RanNext /\ last'.spawned > 0 /\ refs'.wells = <<>>) =>
         \A i \in 1 .. Len(refs'.enemies) :
            LET e == refs'.enemies[i]
                m == ThemeSpeed[refs'.currentThemeIdx + 1]
            IN  (e.id >= nextId /\ e.id < nextId + last'.spawned) =>
                   \E base \in {900, 2300} :
                      Abs(length(e.vx, e.vy) - Quot(base * m, 100)) <= 5]_vars

\* C38: the theme state.  The current and the next theme index are two
\* different indices of 0 .. 4, the blend is at least 0 and below 1 (4 s),
\* and it is 0 unless a transition is in progress.
ThemeStateValid ==
    /\ refs.currentThemeIdx \in 0 .. NumThemes - 1
    /\ refs.nextThemeIdx \in 0 .. NumThemes - 1
    /\ refs.nextThemeIdx # refs.currentThemeIdx
    /\ refs.themeBlend >= 0 /\ refs.themeBlend < BlendFull
    /\ refs.themeBlend # 0 => refs.themeTransitioning

\* A tick has just committed a crossfade: no transition in progress, the
\* blend back at 0, and a new next theme picked.
CrossfadeCommitted ==
    /\ Ran /\ last.dt > 0
    /\ ~refs.themeTransitioning /\ refs.themeBlend = 0
    /\ refs.currentThemeIdx = 3 /\ refs.nextThemeIdx \in {1, 4}
    /\ refs.themeTimer > 3990 /\ refs.themeTimer < ThemeDuration

\* C39 as worded: the spawn interval stays in [220, 900] ms; a tick that
\* takes the difficulty timer past 5 s lowers it by 40, any other tick
\* leaves it alone; and of the other steps only a start or restart command
\* changes it, to 900.
SpawnIntervalDropsBy40 ==
    [][/\ refs'.spawnInterval >= 220 /\ refs'.spawnInterval <= 900
       /\ IF RanNext
          THEN refs'.spawnInterval =
                  (IF refs.difficultyTimer + last'.dt > 5000
                   THEN refs.spawnInterval - 40 ELSE refs.spawnInterval)
          ELSE IF last'.cmd \in StartCommands THEN refs'.spawnInterval = 900
          ELSE refs'.spawnInterval = refs.spawnInterval]_vars

\* C39: the spawn interval stays in [220, 900] ms; a tick that takes the
\* difficulty timer past 5 s lowers it by 40 but not below 220 and sets the
\* timer to 0, any other tick leaves it alone; and of the other steps only
\* a start or restart command changes it, to 900.
SpawnIntervalRamp ==
    [][/\ refs'.spawnInterval >= 220 /\ refs'.spawnInterval <= 900
       /\ IF RanNext
          THEN IF refs.difficultyTimer + last'.dt > 5000
               THEN /\ refs'.spawnInterval
                         = (IF refs.spawnInterval - 40 < 220 THEN 220
                            ELSE refs.spawnInterval - 40)
                    /\ refs'.difficultyTimer = 0
               ELSE /\ refs'.spawnInterval = refs.spawnInterval
                    /\ refs'.difficultyTimer = refs.difficultyTimer + last'.dt
          ELSE IF last'.cmd \in StartCommands THEN refs'.spawnInterval = 900
          ELSE refs'.spawnInterval = refs.spawnInterval]_vars

\* A tick has just taken the difficulty timer past 5 s with the interval
\* already at its floor of 220 ms, and the interval is still 220 ms.
RampHeldAtFloor ==
    /\ Ran /\ nTicks = 1 /\ mode = "playing"
    /\ refs.difficultyTimer = 0 /\ refs.spawnInterval = 220

\* C40: after every step has-shield is true iff the shield duration is
\* positive.  On a tick that ran: a shield power-up in reach at the power-up
\* step leaves that step with has-shield true and the duration 8 s; a
\* shield that is up at the timer step leaves it with the duration less dt
\* and has-shield true iff that is positive; and an enemy on the shielded
\* rocket at the ship-enemy step leaves has-shield false and the duration 0.
ShieldFlagMatchesTimer ==
    /\ refs.hasShield <=> refs.shieldTimer > 0
    /\ Ran =>
         /\ "shield" \in TypesInReach(last.at[16])
               => last.at[17].hasShield /\ last.at[17].shieldTimer = 8000
         /\ last.at[17].hasShield
               => /\ last.at[21].shieldTimer = last.at[17].shieldTimer - last.dt
                  /\ last.at[21].hasShield <=> last.at[21].shieldTimer > 0
         /\ (last.at[21].hasShield /\ Touching(last.at[21]) # {})
               => ~refs.hasShield /\ refs.shieldTimer = 0

\* The shield absorbed an enemy with most of its duration left: the flag and
\* the duration were cleared together and the game goes on.
ShieldAndTimerCleared ==
    /\ Ran /\ mode = "playing"
    /\ last.at[21].hasShield /\ last.at[21].shieldTimer > 1000
    /\ Touching(last.at[21]) # {}
    /\ ~refs.hasShield /\ refs.shieldTimer = 0

=============================================================================
